---------------------------- MODULE Spec2Model ----------------------------
(***************************************************************************)
(* Lightspeed-ShopSync: the reconciliation engine of scripts/sync.py.      *)
(*                                                                         *)
(* The model has three layers, each translated from the source:            *)
(*   - fetch_products / fetch_variants: one action per HTTP request        *)
(*     (FetchRequest), with the retry loop and the page loop;              *)
(*   - sync_shop: one action per statement that talks to the database or   *)
(*     to the fetch tasks (InsertLog .. CloseSuccess / CloseError);        *)
(*   - the __main__ block: FleetStart, Collect, FleetReport.               *)
(*                                                                         *)
(* Entities carry an id and one field `data` that stands for all the       *)
(* fields a row copies from them (title, url, sku, price, image ...).      *)
(* Remote ids are unique within a collection.  Every database call, the    *)
(* writes of the audit table sync_logs included, and every HTTP request    *)
(* can fail.                                                               *)
(***************************************************************************)
EXTENDS Integers, Sequences, FiniteSets, TLC

(***************************************************************************)
(* Program constants                                                       *)
(***************************************************************************)
LIMIT == 250
MAX_RETRIES == 3
\* `if pid:` - a variant without a product reference yields None
NoProduct == 0

(***************************************************************************)
(* Bounds of the model                                                     *)
(***************************************************************************)
MaxProductId == 2
MaxVariantId == 2
MaxFullPages == 3
NumShops == 2
MaxInvocations == 2

ProductIds == 1..MaxProductId
VariantIds == 1..MaxVariantId
Langs == {"nl", "fr", "de"}

VARIABLES
  shops,            \* the roster read at line 393: a sequence of shop records
  environ,          \* os.environ: which tenant keys have an API key / secret
  remote,           \* the remote API: per shop id, its health and catalogues
  db_flaky,         \* whether database calls may fail
  prior,            \* the four tables as they were before the fleet started
  products,         \* table products
  product_content,  \* table product_content
  variants,         \* table variants
  variant_content,  \* table variant_content
  sync_logs,        \* table sync_logs, by log id
  run,              \* the locals of each sync_shop call
  task,             \* the two fetch tasks of each sync_shop call
  fleet,            \* the state of the __main__ block
  trace             \* history: the calls each sync_shop call has made, in order

vars == <<shops, environ, remote, db_flaky, prior, products, product_content,
          variants, variant_content, sync_logs, run, task, fleet, trace>>

scenario == <<shops, environ, remote, db_flaky, prior>>
tables == <<products, product_content, variants, variant_content>>

\* a sync_shop call per roster entry
RunIds == 1..NumShops
Runs == 1..Len(shops)
Kinds == {"products", "variants"}

(***************************************************************************)
(* Helpers on sequences and sets                                           *)
(***************************************************************************)
Min(a, b) == IF a < b THEN a ELSE b

RECURSIVE SortedSeq(_)
SortedSeq(S) ==
  IF S = {} THEN <<>>
  ELSE LET m == CHOOSE x \in S : \A y \in S : x <= y
       IN <<m>> \o SortedSeq(S \ {m})

Range(s) == {s[i] : i \in 1..Len(s)}

IdsOf(s) == {s[i].id : i \in 1..Len(s)}

RECURSIVE SumLen(_)
SumLen(s) ==
  IF s = <<>> THEN 0
  ELSE IF Len(s) = 1 THEN Len(s[1].variants)
  ELSE LET h == Len(s) \div 2
       IN SumLen(SubSeq(s, 1, h)) + SumLen(SubSeq(s, h + 1, Len(s)))

RECURSIVE Flatten(_)
Flatten(s) ==
  IF s = <<>> THEN <<>>
  ELSE IF Len(s) = 1 THEN s[1]
  ELSE LET h == Len(s) \div 2
       IN Flatten(SubSeq(s, 1, h)) \o Flatten(SubSeq(s, h + 1, Len(s)))


(***************************************************************************)
(* The remote API: GET /{lang}/products.json?limit=..&page=..              *)
(***************************************************************************)
\* the entities of page `page` (1-indexed) of a collection, LIMIT per page
GetPage(collection, page) ==
  SubSeq(collection, (page - 1) * LIMIT + 1, Min(page * LIMIT, Len(collection)))

\* the outcomes one HTTP request to a shop's API can have
RequestOutcomes(mode) ==
  CASE mode = "up" -> {TRUE}
    [] mode = "down" -> {FALSE}
    [] OTHER -> BOOLEAN

\* the outcomes one database call can have; a call that is not issued cannot fail
DbOutcomes(issued) == IF db_flaky /\ issued THEN BOOLEAN ELSE {TRUE}

(***************************************************************************)
(* attach_variants (lines 112-132)                                         *)
(***************************************************************************)
\* v.pop("product"): the variant as it is attached
StripProduct(v) == [id |-> v.id, data |-> v.data]

\* by_product[pid]: the variants with a truthy product id equal to pid, in order
ByProduct(vs, pid) ==
  LET hit == SelectSeq(vs, LAMBDA v : v.product # NoProduct /\ v.product = pid)
  IN [i \in 1..Len(hit) |-> StripProduct(hit[i])]

\* the keys of by_product: the truthy product ids the variants reference
ByProductKeys(vs) == {vs[i].product : i \in 1..Len(vs)} \ {NoProduct}

\* a faulty variant: attaches every referencing variant to every product
AttachVariantsAll(ps, vs) ==
  [i \in 1..Len(ps) |->
     [id |-> ps[i].id, data |-> ps[i].data,
      variants |-> [j \in 1..Len(vs) |-> StripProduct(vs[j])]]]

\* the returned products: every input product, with p["variants"] set
AttachVariants(ps, vs) ==
  [i \in 1..Len(ps) |->
     [id |-> ps[i].id, data |-> ps[i].data,
      variants |-> ByProduct(vs, ps[i].id)]]

\* the warnings printed at line 130: one per referenced product id that is not
\* among the products, with the ids of the variants that reference it
OrphanReport(ps, vs) ==
  {[product |-> pid, variant_ids |-> IdsOf(ByProduct(vs, pid))] :
     pid \in ByProductKeys(vs) \ IdsOf(ps)}

(***************************************************************************)
(* The row shapes built at lines 208-250 and 329-353                       *)
(***************************************************************************)
ProductRows(shop_id, ps) ==
  [i \in 1..Len(ps) |->
     [shop_id |-> shop_id, lightspeed_product_id |-> ps[i].id, data |-> ps[i].data]]

ContentRows(shop_id, ps, lang) ==
  [i \in 1..Len(ps) |->
     [shop_id |-> shop_id, lightspeed_product_id |-> ps[i].id,
      language_code |-> lang, data |-> ps[i].data]]

VariantRowsOf(shop_id, p) ==
  [j \in 1..Len(p.variants) |->
     [shop_id |-> shop_id, lightspeed_product_id |-> p.id,
      lightspeed_variant_id |-> p.variants[j].id, data |-> p.variants[j].data]]

VariantRows(shop_id, ps) ==
  Flatten([i \in 1..Len(ps) |-> VariantRowsOf(shop_id, ps[i])])

VariantContentRowsOf(shop_id, p, lang) ==
  [j \in 1..Len(p.variants) |->
     [shop_id |-> shop_id, lightspeed_variant_id |-> p.variants[j].id,
      language_code |-> lang, data |-> p.variants[j].data]]

VariantContentRows(shop_id, ps, lang) ==
  Flatten([i \in 1..Len(ps) |-> VariantContentRowsOf(shop_id, ps[i], lang)])

\* a faulty variant: the secondary-language filter left out
LocalizedProductRowsUnfiltered(shop_id, ps, lang, valid) ==
  ContentRows(shop_id, ps, lang)

\* lines 329-342: content rows of the localized products whose id is valid
LocalizedProductRows(shop_id, ps, lang, valid) ==
  ContentRows(shop_id, SelectSeq(ps, LAMBDA p : p.id \in valid), lang)

\* lines 344-353: content rows of the localized variants whose id is valid
LocalizedVariantRows(shop_id, vs, lang, valid) ==
  LET kept == SelectSeq(vs, LAMBDA v : v.id \in valid)
  IN [i \in 1..Len(kept) |->
        [shop_id |-> shop_id, lightspeed_variant_id |-> kept[i].id,
         language_code |-> lang, data |-> kept[i].data]]

(***************************************************************************)
(* Database calls                                                          *)
(***************************************************************************)
\* the identity of a stored product and of a stored variant (lines 279-282
\* and 301-304: shop_id and the Lightspeed id)
ProductKey(r) == <<r.shop_id, r.lightspeed_product_id>>
VariantKey(r) == <<r.shop_id, r.lightspeed_variant_id>>

\* a faulty variant: the products conflict target without the shop key
ProductColsNoShop == {"lightspeed_product_id"}

\* the conflict columns of lines 256-259
ProductCols == {"shop_id", "lightspeed_product_id"}
ContentCols == {"shop_id", "lightspeed_product_id", "language_code"}
VariantCols == {"shop_id", "lightspeed_variant_id"}
VariantContentCols == {"shop_id", "lightspeed_variant_id", "language_code"}

\* the value of a row on the conflict columns
ConflictKey(row, conflict_cols) == [c \in conflict_cols |-> row[c]]

\* a faulty variant: a stored row that conflicts with a new row is removed and
\* the new row is not stored
UpsertToggle(table, rows, conflict_cols) ==
  {t \in table :
     \A i \in 1..Len(rows) :
       ConflictKey(t, conflict_cols) # ConflictKey(rows[i], conflict_cols)}
  \cup {rows[i] : i \in {j \in 1..Len(rows) :
                           \A t \in table :
                             ConflictKey(t, conflict_cols)
                               # ConflictKey(rows[j], conflict_cols)}}

\* upsert(rows, on_conflict=conflict_cols): a stored row that agrees with a
\* new row on the conflict columns is replaced by it, every other stored row
\* is kept
Upsert(table, rows, conflict_cols) ==
  {t \in table :
     \A i \in 1..Len(rows) :
       ConflictKey(t, conflict_cols) # ConflictKey(rows[i], conflict_cols)}
  \cup Range(rows)

\* bulk_upsert (lines 138-145): nothing is sent for an empty row list
BulkUpsert(table, rows, conflict_cols) ==
  IF rows = <<>> THEN table ELSE Upsert(table, rows, conflict_cols)

\* select lightspeed_product_id where shop_id = .. (lines 267-275)
SelectProductIds(table, shop_id) ==
  {t.lightspeed_product_id : t \in {u \in table : u.shop_id = shop_id}}

\* select lightspeed_variant_id where shop_id = .. (lines 289-297)
SelectVariantIds(table, shop_id) ==
  {t.lightspeed_variant_id : t \in {u \in table : u.shop_id = shop_id}}

\* a faulty variant: the set difference taken the wrong way round
OrphanedReversed(existing, api) == api \ existing

\* existing_product_ids - api_product_ids (lines 276, 298)
Orphaned(existing, api) == existing \ api

\* a faulty variant: the delete without its shop filter
DeleteProductRowsAnyShop(table, shop_id, ids) ==
  {t \in table : ~ (t.lightspeed_product_id \in ids)}

\* delete where shop_id = .. and lightspeed_product_id in (..) (lines 279-282)
DeleteProductRows(table, shop_id, ids) ==
  {t \in table : ~ (t.shop_id = shop_id /\ t.lightspeed_product_id \in ids)}

\* delete where shop_id = .. and lightspeed_variant_id in (..) (lines 301-304)
\* a faulty variant: the delete filters on the product id column
DeleteVariantRowsByProduct(table, shop_id, ids) ==
  {t \in table : ~ (t.shop_id = shop_id /\ t.lightspeed_product_id \in ids)}

DeleteVariantRows(table, shop_id, ids) ==
  {t \in table : ~ (t.shop_id = shop_id /\ t.lightspeed_variant_id \in ids)}

(***************************************************************************)
(* Metrics and audit rows                                                  *)
(***************************************************************************)
MetricNames == {"products_fetched", "variants_fetched", "products_synced",
                "variants_synced", "products_deleted", "variants_deleted",
                "variants_filtered"}

\* lines 165-173
ZeroMetrics == [n \in MetricNames |-> 0]

\* the metric columns of a sync_logs row before any update sets them
NullMetrics == [n \in MetricNames |-> -1]

\* no row of sync_logs has this id yet
NoRow ==
  [shop_id |-> 0, status |-> "none", completed |-> FALSE,
   error_message |-> "NULL", metrics |-> NullMetrics]

\* lines 158-161
RunningRow(shop_id) ==
  [shop_id |-> shop_id, status |-> "running", completed |-> FALSE,
   error_message |-> "NULL", metrics |-> NullMetrics]

\* lines 368-372
SuccessUpdate(row, metrics) ==
  [row EXCEPT !.status = "success", !.completed = TRUE, !.metrics = metrics]

\* a faulty variant: the error update without the exception message
ErrorUpdateNoMessage(row, metrics, message) ==
  [row EXCEPT !.status = "error", !.completed = TRUE, !.metrics = metrics]

\* lines 376-381
ErrorUpdate(row, metrics, message) ==
  [row EXCEPT !.status = "error", !.completed = TRUE,
              !.error_message = message, !.metrics = metrics]


(***************************************************************************)
(* Initial states                                                          *)
(***************************************************************************)
\* a remote product / variant as the API returns it
P(i) == [id |-> i, data |-> "new"]
V(v, pid) == [id |-> v, product |-> pid, data |-> "new"]

ProductSeq(ids) == LET s == SortedSeq(ids) IN [i \in 1..Len(s) |-> P(s[i])]

\* the product a variant belongs to upstream (two variants per product)
Parent(v) == (((v - 1) \div 2) % MaxProductId) + 1

\* the variants collection: a variant is absent, carries its product reference
\* ("ref") or carries none ("noref")
VariantSeq(vstate) ==
  LET s == SortedSeq({v \in DOMAIN vstate : vstate[v] # "absent"})
  IN [i \in 1..Len(s) |->
        V(s[i], IF vstate[s[i]] = "ref" THEN Parent(s[i]) ELSE NoProduct)]

Lang(code, is_default, is_active) ==
  [code |-> code, is_default |-> is_default, is_active |-> is_active]

\* the language configurations of a shop that are exercised
LangConfigs ==
  { << Lang("nl", TRUE, TRUE) >>,
    << Lang("nl", TRUE, TRUE), Lang("fr", FALSE, TRUE), Lang("de", FALSE, FALSE) >>,
    << Lang("de", FALSE, TRUE), Lang("nl", TRUE, FALSE), Lang("fr", FALSE, TRUE) >> }

HasSecondary(cfg) == \E i \in 1..Len(cfg) : cfg[i].is_active /\ ~ cfg[i].is_default

Shop(id, cfg) == [id |-> id, tld |-> id, shop_languages |-> cfg]

\* the catalogue per language: `base` for the default language, `sec` for the others
Catalogue(cfg, base, sec) ==
  [l \in Langs |->
     IF \E i \in 1..Len(cfg) : cfg[i].code = l /\ cfg[i].is_default THEN base ELSE sec]

\* rows left by an earlier run: products and variants with their base-language content
PriorProducts(shop_id, ids) ==
  {[shop_id |-> shop_id, lightspeed_product_id |-> i, data |-> "old"] : i \in ids}
PriorContent(shop_id, ids) ==
  {[shop_id |-> shop_id, lightspeed_product_id |-> i, language_code |-> "nl",
    data |-> "old"] : i \in ids}
PriorVariants(shop_id, vp) ==
  {[shop_id |-> shop_id, lightspeed_product_id |-> x[2],
    lightspeed_variant_id |-> x[1], data |-> "old"] : x \in vp}
PriorVariantContent(shop_id, vp) ==
  {[shop_id |-> shop_id, lightspeed_variant_id |-> x[1], language_code |-> "nl",
    data |-> "old"] : x \in vp}

IdleTask ==
  [st |-> "idle", lang |-> "-", page |-> 1, attempt |-> 0, acc |-> <<>>,
   reqs |-> <<>>]

\* the locals of sync_shop before its first statement
FreshRun ==
  [pc |-> "idle", metrics |-> ZeroMetrics, exc |-> "none",
   base_lang |-> "-", active_langs |-> <<>>, todo |-> <<>>, lang |-> "-",
   products |-> <<>>, variants |-> <<>>, report |-> {},
   product_rows |-> <<>>, content_rows |-> <<>>,
   variant_rows |-> <<>>, variant_content_rows |-> <<>>,
   api_product_ids |-> {}, existing_product_ids |-> {}, orphaned_products |-> {},
   api_variant_ids |-> {}, existing_variant_ids |-> {}, orphaned_variants |-> {},
   removed_products |-> {}, removed_variants |-> {},
   localized_products |-> <<>>, localized_variants |-> <<>>,
   localized_product_rows |-> <<>>, localized_variant_rows |-> <<>>,
   filtered_products |-> 0, filtered_variants |-> 0]

\* the state before the runs of the shops `sh` make their next step from `at`
Setup(sh, env, rem, flaky, at, tp, tc, tv, tvc) ==
  /\ shops = sh
  /\ environ = env
  /\ remote = rem
  /\ db_flaky = flaky
  /\ prior = [products |-> tp, product_content |-> tc,
              variants |-> tv, variant_content |-> tvc]
  /\ products = tp
  /\ product_content = tc
  /\ variants = tv
  /\ variant_content = tvc
  /\ sync_logs = [r \in 1..Len(sh) |-> NoRow]
  /\ run = [r \in 1..Len(sh) |-> [FreshRun EXCEPT !.pc = at]]
  /\ task = [r \in 1..Len(sh) |-> [k \in Kinds |-> IdleTask]]
  /\ fleet = [pc |-> "start", collected |-> {}, failed |-> {}, invocation |-> 1]
  /\ trace = [r \in 1..Len(sh) |-> <<>>]

\* one call of sync_shop: database calls may fail
SoloSetup(cfg, env, mode, base, sec, pp, pv) ==
  Setup(<< Shop(1, cfg) >>, env,
        [s \in {1} |-> [mode |-> mode, catalogue |-> Catalogue(cfg, base, sec)]],
        TRUE, "insert_log",
        PriorProducts(1, pp), PriorContent(1, pp),
        PriorVariants(1, pv), PriorVariantContent(1, pv))

Environs == [api_key : SUBSET {1}, api_secret : SUBSET {1}]

FullCatalogue ==
  [products |-> ProductSeq(ProductIds),
   variants |-> VariantSeq([v \in VariantIds |-> "ref"])]

\* any catalogue and any stored rows over the id universe, with an API that
\* answers every request
InitData ==
  \E cfg \in LangConfigs,
     pp \in SUBSET ProductIds, bp \in SUBSET ProductIds,
     vstate \in [VariantIds -> {"absent", "ref", "noref"}] :
    LET base == [products |-> ProductSeq(bp), variants |-> VariantSeq(vstate)]
        pv == {<<v, Parent(v)>> : v \in {w \in VariantIds : Parent(w) \in pp}}
    IN \E sec \in (IF HasSecondary(cfg) THEN {base, FullCatalogue} ELSE {base}) :
         SoloSetup(cfg, [api_key |-> {1}, api_secret |-> {1}], "up",
                   base, sec, pp, pv)

\* any credentials and an API whose requests may fail, on the full catalogue
\* with the first product stored
InitFaults ==
  \E cfg \in LangConfigs, env \in Environs :
    SoloSetup(cfg, env, "flaky", FullCatalogue, FullCatalogue,
              {1}, {<<v, 1>> : v \in {w \in VariantIds : Parent(w) = 1}})

InitGeneric == InitData \/ InitFaults

\* the examples of the specification's section 8: stored ids {1,2,3,4} against
\* fetched ids {2,3,5}; valid ids {10,11} against a localized fetch {10,11,12};
\* 5 products and 7 variants, 2 of which reference a sixth product
InitExamples ==
  \/ SoloSetup(CHOOSE c \in LangConfigs : Len(c) = 1,
               [api_key |-> {1}, api_secret |-> {1}], "flaky",
               [products |-> ProductSeq({2, 3, 5}),
                variants |-> << V(2, 2), V(3, 3), V(5, 5) >>],
               [products |-> <<>>, variants |-> <<>>],
               {1, 2, 3, 4}, {<<1, 1>>, <<2, 2>>, <<3, 3>>, <<4, 4>>})
  \/ SoloSetup(CHOOSE c \in LangConfigs : Len(c) = 3 /\ c[1].is_default,
               [api_key |-> {1}, api_secret |-> {1}], "flaky",
               [products |-> ProductSeq({10, 11}),
                variants |-> << V(10, 10), V(11, 11) >>],
               [products |-> ProductSeq({10, 11, 12}),
                variants |-> << V(10, 10), V(11, 11), V(12, 12) >>],
               {}, {})
  \/ SoloSetup(CHOOSE c \in LangConfigs : Len(c) = 1,
               [api_key |-> {1}, api_secret |-> {1}], "flaky",
               [products |-> ProductSeq(1..5),
                variants |-> << V(1, 1), V(2, 2), V(3, 3), V(4, 4), V(5, 5),
                                V(6, 6), V(7, 6) >>],
               [products |-> <<>>, variants |-> <<>>],
               {}, {})

Init == InitGeneric \/ InitExamples


(***************************************************************************)
(* fetch_products / fetch_variants (lines 38-109): one action per request  *)
(***************************************************************************)
\* the task as executor.submit starts it: page 1, nothing fetched
StartedTask(lang) == [IdleTask EXCEPT !.st = "running", !.lang = lang]

\* what a request leaves in the history: the page asked for, whether it
\* succeeded, the size of the batch, and the sleep that followed it
Req(page, ok, n, slept) == [page |-> page, ok |-> ok, n |-> n, slept |-> slept]

\* a faulty variant: the last-page test written with <= instead of <
ReceivedStopAtLimit(t, batch) ==
  LET logged == [t EXCEPT !.reqs = Append(@, Req(t.page, TRUE, Len(batch), 0))]
  IN IF batch = <<>> THEN [logged EXCEPT !.st = "done"]
     ELSE IF Len(batch) <= LIMIT
       THEN [logged EXCEPT !.acc = @ \o batch, !.st = "done"]
       ELSE [logged EXCEPT !.acc = @ \o batch, !.page = @ + 1, !.attempt = 0]

\* a faulty variant: the last-page test left out
ReceivedNoShortStop(t, batch) ==
  LET logged == [t EXCEPT !.reqs = Append(@, Req(t.page, TRUE, Len(batch), 0))]
  IN IF batch = <<>> THEN [logged EXCEPT !.st = "done"]
     ELSE [logged EXCEPT !.acc = @ \o batch, !.page = @ + 1, !.attempt = 0]

\* a faulty variant: the attempt counter is not restarted on the next page
ReceivedKeepsAttempt(t, batch) ==
  LET logged == [t EXCEPT !.reqs = Append(@, Req(t.page, TRUE, Len(batch), 0))]
  IN IF batch = <<>> THEN [logged EXCEPT !.st = "done"]
     ELSE IF Len(batch) < LIMIT
       THEN [logged EXCEPT !.acc = @ \o batch, !.st = "done"]
       ELSE [logged EXCEPT !.acc = @ \o batch, !.page = @ + 1]

\* lines 52, 60-70: the request succeeded with `batch`
Received(t, batch) ==
  LET logged == [t EXCEPT !.reqs = Append(@, Req(t.page, TRUE, Len(batch), 0))]
  IN IF batch = <<>> THEN [logged EXCEPT !.st = "done"]
     ELSE IF Len(batch) < LIMIT
       THEN [logged EXCEPT !.acc = @ \o batch, !.st = "done"]
       ELSE [logged EXCEPT !.acc = @ \o batch, !.page = @ + 1, !.attempt = 0]

\* lines 53-58: the request failed; the last attempt re-raises, the others sleep
Failed(t) ==
  IF t.attempt = MAX_RETRIES - 1
    THEN [t EXCEPT !.st = "failed", !.reqs = Append(@, Req(t.page, FALSE, 0, 0))]
    ELSE [t EXCEPT !.attempt = @ + 1,
                   !.reqs = Append(@, Req(t.page, FALSE, 0, 2 ^ t.attempt))]

\* a faulty variant: a call that raised hands over the pages it had received
ReturnedPartial(t) == t.acc

\* what the call returns: the accumulated entities, or nothing when it raised
Returned(t) == IF t.st = "done" THEN t.acc ELSE <<>>

Finished(t) == t.st \in {"done", "failed"}

FetchRequest(r, k) ==
  /\ r \in Runs
  /\ task[r][k].st = "running"
  /\ \E ok \in RequestOutcomes(remote[shops[r].id].mode) :
       LET t == task[r][k]
           collection == remote[shops[r].id].catalogue[t.lang][k]
       IN task' = [task EXCEPT ![r][k] =
                     IF ok THEN Received(t, GetPage(collection, t.page))
                           ELSE Failed(t)]
  /\ UNCHANGED <<scenario, tables, sync_logs, run, fleet, trace>>

(***************************************************************************)
(* sync_shop (lines 151-382)                                               *)
(***************************************************************************)
Ev(op, table, lang, ok) == [op |-> op, table |-> table, lang |-> lang, ok |-> ok]

Log(r, e) == trace' = [trace EXCEPT ![r] = Append(@, e)]

\* an exception inside the try block: control goes to the except clause
Raise(r, message) == run' = [run EXCEPT ![r].pc = "except", ![r].exc = message]

\* a faulty variant: the run is not entered while another run of the same shop
\* has its audit row at running
InsertLogExclusive(r) ==
  /\ r \in Runs
  /\ run[r].pc = "insert_log"
  /\ \A q \in Runs \ {r} :
       shops[q].id = shops[r].id => sync_logs[q].status # "running"
  /\ \E ok \in DbOutcomes(TRUE) :
       /\ IF ok
            THEN /\ sync_logs' = [sync_logs EXCEPT ![r] = RunningRow(shops[r].id)]
                 /\ run' = [run EXCEPT ![r].pc = "credentials"]
            ELSE /\ UNCHANGED sync_logs
                 /\ run' = [run EXCEPT ![r].pc = "raised", ![r].exc = "APIError"]
       /\ Log(r, Ev("insert", "sync_logs", "-", ok))
  /\ UNCHANGED <<scenario, tables, task, fleet>>

\* lines 158-162: the insert is outside the try block, so when it fails the
\* exception leaves sync_shop at once and no audit row exists
InsertLog(r) ==
  /\ r \in Runs
  /\ run[r].pc = "insert_log"
  /\ \E ok \in DbOutcomes(TRUE) :
       /\ IF ok
            THEN /\ sync_logs' = [sync_logs EXCEPT ![r] = RunningRow(shops[r].id)]
                 /\ run' = [run EXCEPT ![r].pc = "credentials"]
            ELSE /\ UNCHANGED sync_logs
                 /\ run' = [run EXCEPT ![r].pc = "raised", ![r].exc = "APIError"]
       /\ Log(r, Ev("insert", "sync_logs", "-", ok))
  /\ UNCHANGED <<scenario, tables, task, fleet>>

\* next(l["code"] for l in languages if l["is_default"])
BaseLang(cfg) ==
  cfg[CHOOSE i \in 1..Len(cfg) :
        cfg[i].is_default /\ \A j \in 1..(i - 1) : ~ cfg[j].is_default].code

\* [l["code"] for l in languages if l["is_active"]]
ActiveLangs(cfg) ==
  LET a == SelectSeq(cfg, LAMBDA l : l.is_active)
  IN [i \in 1..Len(a) |-> a[i].code]

\* a faulty variant: a missing secret goes unnoticed
HasCredentialsKeyOnly(tld) == tld \in environ.api_key

\* `not api_key or not api_secret` is false
HasCredentials(tld) == tld \in environ.api_key /\ tld \in environ.api_secret

\* lines 177-186
ResolveCredentials(r) ==
  /\ r \in Runs
  /\ run[r].pc = "credentials"
  /\ IF HasCredentials(shops[r].tld)
       THEN run' = [run EXCEPT ![r].pc = "submit_base",
                               ![r].base_lang = BaseLang(shops[r].shop_languages),
                               ![r].active_langs = ActiveLangs(shops[r].shop_languages),
                               ![r].todo = ActiveLangs(shops[r].shop_languages)]
       ELSE Raise(r, "Missing API credentials")
  /\ Log(r, Ev("credentials", "-", "-", HasCredentials(shops[r].tld)))
  /\ UNCHANGED <<scenario, tables, sync_logs, task, fleet>>

\* lines 191-193
SubmitBase(r) ==
  /\ r \in Runs
  /\ run[r].pc = "submit_base"
  /\ task' = [task EXCEPT ![r] = [k \in Kinds |-> StartedTask(run[r].base_lang)]]
  /\ run' = [run EXCEPT ![r].pc = "join_base", ![r].lang = run[r].base_lang]
  /\ Log(r, Ev("fetch", "-", run[r].base_lang, TRUE))
  /\ UNCHANGED <<scenario, tables, sync_logs, fleet>>

\* a faulty variant: the join does not wait for the sibling of a failed fetch
JoinedOrFailed(r) ==
  \/ \E k \in Kinds : task[r][k].st = "failed"
  \/ \A k \in Kinds : Finished(task[r][k])

\* the two result() calls and the end of the with block: both tasks have ended
Joined(r) == \A k \in Kinds : Finished(task[r][k])
FetchFailed(r) == \E k \in Kinds : task[r][k].st = "failed"

\* lines 195-199
JoinBase(r) ==
  /\ r \in Runs
  /\ run[r].pc = "join_base"
  /\ Joined(r)
  /\ IF FetchFailed(r)
       THEN Raise(r, "RequestException")
       ELSE run' = [run EXCEPT
              ![r].pc = "attach",
              ![r].products = Returned(task[r]["products"]),
              ![r].variants = Returned(task[r]["variants"]),
              ![r].metrics = [@ EXCEPT
                 !.products_fetched = Len(Returned(task[r]["products"])),
                 !.variants_fetched = Len(Returned(task[r]["variants"]))]]
  /\ task' = [task EXCEPT ![r] = [k \in Kinds |-> IdleTask]]
  /\ Log(r, Ev("join", "-", run[r].lang, ~ FetchFailed(r)))
  /\ UNCHANGED <<scenario, tables, sync_logs, fleet>>

\* a faulty variant: every fetched variant is counted as filtered
VariantsFilteredCountsAll(vs, attached) == Len(vs)

\* line 206
VariantsFiltered(vs, attached) == Len(vs) - SumLen(attached)

\* lines 203-254: attach, count the filtered variants, build the four row lists
Attach(r) ==
  /\ r \in Runs
  /\ run[r].pc = "attach"
  /\ LET id == shops[r].id
         attached == AttachVariants(run[r].products, run[r].variants)
     IN run' = [run EXCEPT
          ![r].pc = "upsert_products",
          ![r].products = attached,
          ![r].report = OrphanReport(run[r].products, run[r].variants),
          ![r].product_rows = ProductRows(id, attached),
          ![r].content_rows = ContentRows(id, attached, run[r].base_lang),
          ![r].variant_rows = VariantRows(id, attached),
          ![r].variant_content_rows = VariantContentRows(id, attached, run[r].base_lang),
          ![r].metrics = [@ EXCEPT
             !.variants_filtered = VariantsFiltered(run[r].variants, attached),
             !.products_synced = Len(ProductRows(id, attached)),
             !.variants_synced = Len(VariantRows(id, attached))]]
  /\ Log(r, Ev("attach", "-", run[r].base_lang, TRUE))
  /\ UNCHANGED <<scenario, tables, sync_logs, task, fleet>>


\* supabase.table(name).upsert(rows, on_conflict=..): the table `name` after it
UpsertInto(name, rows) ==
  /\ products' = IF name = "products"
                   THEN BulkUpsert(products, rows, ProductCols) ELSE products
  /\ product_content' = IF name = "product_content"
                   THEN BulkUpsert(product_content, rows, ContentCols) ELSE product_content
  /\ variants' = IF name = "variants"
                   THEN BulkUpsert(variants, rows, VariantCols) ELSE variants
  /\ variant_content' = IF name = "variant_content"
                   THEN BulkUpsert(variant_content, rows, VariantContentCols)
                   ELSE variant_content

\* a faulty variant: the exception of a failed upsert is swallowed
UpsertCallContinues(r, at, name, rows, lang, next) ==
  /\ r \in Runs
  /\ run[r].pc = at
  /\ \E ok \in DbOutcomes(rows # <<>>) :
       /\ IF ok THEN UpsertInto(name, rows) ELSE UNCHANGED tables
       /\ run' = [run EXCEPT ![r].pc = next]
       /\ Log(r, Ev("upsert", name, lang, ok))
  /\ UNCHANGED <<scenario, sync_logs, task, fleet>>

\* one bulk_upsert call of sync_shop: it writes and control moves on, or it raises
UpsertCall(r, at, name, rows, lang, next) ==
  /\ r \in Runs
  /\ run[r].pc = at
  /\ \E ok \in DbOutcomes(rows # <<>>) :
       /\ IF ok THEN /\ UpsertInto(name, rows)
                     /\ run' = [run EXCEPT ![r].pc = next]
                ELSE /\ UNCHANGED tables
                     /\ Raise(r, "APIError")
       /\ Log(r, Ev("upsert", name, lang, ok))
  /\ UNCHANGED <<scenario, sync_logs, task, fleet>>

\* line 256
UpsertProducts(r) ==
  UpsertCall(r, "upsert_products", "products", run[r].product_rows,
             run[r].base_lang, "upsert_product_content")

\* a faulty variant: the product_content upsert made before the products upsert
UpsertProductContentFirst(r) ==
  UpsertCall(r, "upsert_products", "product_content", run[r].content_rows,
             run[r].base_lang, "upsert_variants")

\* line 257
UpsertProductContent(r) ==
  UpsertCall(r, "upsert_product_content", "product_content", run[r].content_rows,
             run[r].base_lang, "upsert_variants")

\* line 258
UpsertVariants(r) ==
  UpsertCall(r, "upsert_variants", "variants", run[r].variant_rows,
             run[r].base_lang, "upsert_variant_content")

\* line 259
UpsertVariantContent(r) ==
  UpsertCall(r, "upsert_variant_content", "variant_content",
             run[r].variant_content_rows, run[r].base_lang, "select_products")

\* lines 265-278: read the stored product ids, compute the orphaned ones
SelectProducts(r) ==
  /\ r \in Runs
  /\ run[r].pc = "select_products"
  /\ \E ok \in DbOutcomes(TRUE) :
       /\ IF ok
            THEN LET api == IdsOf(run[r].products)
                     existing == SelectProductIds(products, shops[r].id)
                     orphaned == Orphaned(existing, api)
                 IN run' = [run EXCEPT
                      ![r].pc = IF orphaned # {} THEN "delete_products"
                                                 ELSE "select_variants",
                      ![r].api_product_ids = api,
                      ![r].existing_product_ids = existing,
                      ![r].orphaned_products = orphaned]
            ELSE Raise(r, "APIError")
       /\ Log(r, Ev("select", "products", run[r].base_lang, ok))
  /\ UNCHANGED <<scenario, tables, sync_logs, task, fleet>>

\* lines 279-284
DeleteProducts(r) ==
  /\ r \in Runs
  /\ run[r].pc = "delete_products"
  /\ \E ok \in DbOutcomes(TRUE) :
       /\ IF ok
            THEN LET after == DeleteProductRows(products, shops[r].id, run[r].orphaned_products)
                 IN /\ products' = after
                    /\ run' = [run EXCEPT
                         ![r].pc = "select_variants",
                         ![r].removed_products =
                            {ProductKey(t) : t \in products \ after},
                         ![r].metrics = [@ EXCEPT !.products_deleted =
                            Cardinality(run[r].orphaned_products)]]
            ELSE /\ UNCHANGED products
                 /\ Raise(r, "APIError")
       /\ Log(r, Ev("delete", "products", run[r].base_lang, ok))
  /\ UNCHANGED <<scenario, product_content, variants, variant_content,
                 sync_logs, task, fleet>>

\* lines 287-300: read the stored variant ids, compute the orphaned ones
SelectVariants(r) ==
  /\ r \in Runs
  /\ run[r].pc = "select_variants"
  /\ \E ok \in DbOutcomes(TRUE) :
       /\ IF ok
            THEN LET api == {run[r].variant_rows[i].lightspeed_variant_id :
                               i \in 1..Len(run[r].variant_rows)}
                     existing == SelectVariantIds(variants, shops[r].id)
                     orphaned == Orphaned(existing, api)
                 IN run' = [run EXCEPT
                      ![r].pc = IF orphaned # {} THEN "delete_variants" ELSE "langs",
                      ![r].api_variant_ids = api,
                      ![r].existing_variant_ids = existing,
                      ![r].orphaned_variants = orphaned]
            ELSE Raise(r, "APIError")
       /\ Log(r, Ev("select", "variants", run[r].base_lang, ok))
  /\ UNCHANGED <<scenario, tables, sync_logs, task, fleet>>

\* lines 301-306
DeleteVariants(r) ==
  /\ r \in Runs
  /\ run[r].pc = "delete_variants"
  /\ \E ok \in DbOutcomes(TRUE) :
       /\ IF ok
            THEN LET after == DeleteVariantRows(variants, shops[r].id, run[r].orphaned_variants)
                 IN /\ variants' = after
                    /\ run' = [run EXCEPT
                         ![r].pc = "langs",
                         ![r].removed_variants =
                            {VariantKey(t) : t \in variants \ after},
                         ![r].metrics = [@ EXCEPT !.variants_deleted =
                            Cardinality(run[r].orphaned_variants)]]
            ELSE /\ UNCHANGED variants
                 /\ Raise(r, "APIError")
       /\ Log(r, Ev("delete", "variants", run[r].base_lang, ok))
  /\ UNCHANGED <<scenario, products, product_content, variant_content,
                 sync_logs, task, fleet>>

\* a faulty variant: the base language is not skipped
SkipBaseNot(todo, base) == todo

\* lines 315-317: the languages still to visit, the base language skipped
RECURSIVE SkipBase(_, _)
SkipBase(todo, base) ==
  IF todo # <<>> /\ Head(todo) = base THEN SkipBase(Tail(todo), base) ELSE todo

\* lines 315-323: the next secondary language, its two fetches submitted
SubmitLang(r) ==
  /\ r \in Runs
  /\ run[r].pc = "langs"
  /\ SkipBase(run[r].todo, run[r].base_lang) # <<>>
  /\ LET rest == SkipBase(run[r].todo, run[r].base_lang)
     IN /\ task' = [task EXCEPT ![r] = [k \in Kinds |-> StartedTask(Head(rest))]]
        /\ run' = [run EXCEPT ![r].pc = "join_lang", ![r].lang = Head(rest),
                              ![r].todo = Tail(rest)]
        /\ Log(r, Ev("fetch", "-", Head(rest), TRUE))
  /\ UNCHANGED <<scenario, tables, sync_logs, fleet>>

\* lines 325-362: the results joined, filtered against the valid ids, counted
JoinLang(r) ==
  /\ r \in Runs
  /\ run[r].pc = "join_lang"
  /\ Joined(r)
  /\ IF FetchFailed(r)
       THEN Raise(r, "RequestException")
       ELSE LET lp == Returned(task[r]["products"])
                lv == Returned(task[r]["variants"])
                prows == LocalizedProductRows(shops[r].id, lp, run[r].lang,
                                              run[r].api_product_ids)
                vrows == LocalizedVariantRows(shops[r].id, lv, run[r].lang,
                                              run[r].api_variant_ids)
            IN run' = [run EXCEPT
                 ![r].pc = "upsert_localized_products",
                 ![r].localized_products = lp,
                 ![r].localized_variants = lv,
                 ![r].localized_product_rows = prows,
                 ![r].localized_variant_rows = vrows,
                 ![r].filtered_products = Len(lp) - Len(prows),
                 ![r].filtered_variants = Len(lv) - Len(vrows)]
  /\ task' = [task EXCEPT ![r] = [k \in Kinds |-> IdleTask]]
  /\ Log(r, Ev("join", "-", run[r].lang, ~ FetchFailed(r)))
  /\ UNCHANGED <<scenario, tables, sync_logs, fleet>>

\* line 364
UpsertLocalizedProducts(r) ==
  UpsertCall(r, "upsert_localized_products", "product_content",
             run[r].localized_product_rows, run[r].lang, "upsert_localized_variants")

\* line 365
UpsertLocalizedVariants(r) ==
  UpsertCall(r, "upsert_localized_variants", "variant_content",
             run[r].localized_variant_rows, run[r].lang, "langs")

\* lines 367-372: the loop is over, the audit row is closed as success
CloseSuccess(r) ==
  /\ r \in Runs
  /\ run[r].pc = "langs"
  /\ SkipBase(run[r].todo, run[r].base_lang) = <<>>
  /\ \E ok \in DbOutcomes(TRUE) :
       /\ IF ok
            THEN /\ sync_logs' = [sync_logs EXCEPT ![r] = SuccessUpdate(@, run[r].metrics)]
                 /\ run' = [run EXCEPT ![r].pc = "returned"]
            ELSE /\ UNCHANGED sync_logs
                 /\ Raise(r, "APIError")
       /\ Log(r, Ev("update", "sync_logs", "success", ok))
  /\ UNCHANGED <<scenario, tables, task, fleet>>

\* lines 374-382: the audit row is closed as error and the exception re-raised;
\* when the update itself fails, its exception leaves sync_shop instead
CloseError(r) ==
  /\ r \in Runs
  /\ run[r].pc = "except"
  /\ \E ok \in DbOutcomes(TRUE) :
       /\ IF ok
            THEN /\ sync_logs' = [sync_logs EXCEPT
                                    ![r] = ErrorUpdate(@, run[r].metrics, run[r].exc)]
                 /\ run' = [run EXCEPT ![r].pc = "raised"]
            ELSE /\ UNCHANGED sync_logs
                 /\ run' = [run EXCEPT ![r].pc = "raised", ![r].exc = "APIError"]
       /\ Log(r, Ev("update", "sync_logs", "error", ok))
  /\ UNCHANGED <<scenario, tables, task, fleet>>

(***************************************************************************)
(* The __main__ block (lines 388-416)                                      *)
(***************************************************************************)
\* lines 393-402: the roster is read and one sync_shop is submitted per shop;
\* ThreadPoolExecutor(max_workers=0) raises ValueError for an empty roster
FleetStart ==
  /\ fleet.pc = "start"
  /\ IF Len(shops) = 0
       THEN /\ fleet' = [fleet EXCEPT !.pc = "crashed"]
            /\ UNCHANGED run
       ELSE /\ fleet' = [fleet EXCEPT !.pc = "collecting"]
            /\ run' = [r \in Runs |-> [run[r] EXCEPT !.pc = "insert_log"]]
  /\ UNCHANGED <<scenario, tables, sync_logs, task, trace>>

Ended(r) == run[r].pc \in {"returned", "raised"}

\* lines 404-409: as_completed hands over a finished future; its exception is
\* caught and printed
Collect(r) ==
  /\ r \in Runs
  /\ fleet.pc = "collecting"
  /\ r \notin fleet.collected
  /\ Ended(r)
  /\ fleet' = [fleet EXCEPT !.collected = @ \cup {r},
                            !.failed = IF run[r].pc = "raised" THEN @ \cup {r} ELSE @]
  /\ UNCHANGED <<scenario, tables, sync_logs, run, task, trace>>

\* lines 411-416: every future has been handed over; the total is printed
FleetReport ==
  /\ fleet.pc = "collecting"
  /\ fleet.collected = Runs
  /\ fleet' = [fleet EXCEPT !.pc = "done"]
  /\ UNCHANGED <<scenario, tables, sync_logs, run, task, trace>>

(***************************************************************************)
(* Specifications                                                          *)
(***************************************************************************)
RunNext(r) ==
  \/ InsertLog(r)
  \/ ResolveCredentials(r)
  \/ SubmitBase(r)
  \/ \E k \in Kinds : FetchRequest(r, k)
  \/ JoinBase(r)
  \/ Attach(r)
  \/ UpsertProducts(r)
  \/ UpsertProductContent(r)
  \/ UpsertVariants(r)
  \/ UpsertVariantContent(r)
  \/ SelectProducts(r)
  \/ DeleteProducts(r)
  \/ SelectVariants(r)
  \/ DeleteVariants(r)
  \/ SubmitLang(r)
  \/ JoinLang(r)
  \/ UpsertLocalizedProducts(r)
  \/ UpsertLocalizedVariants(r)
  \/ CloseSuccess(r)
  \/ CloseError(r)

Next ==
  \/ FleetStart
  \/ \E r \in RunIds : RunNext(r)
  \/ \E r \in RunIds : Collect(r)
  \/ FleetReport

\* one call of sync_shop, over every catalogue and stored state
NextShop == \E r \in RunIds : RunNext(r)

Spec == Init /\ [][NextShop]_vars


(***************************************************************************)
(* The fleet: every roster of up to NumShops shops, run concurrently       *)
(***************************************************************************)
\* shop s fetches products s and s+1 and three variants, the last of which
\* references a product that is not fetched; every shop has stored 1, 2 and 3
FleetBase(s) ==
  [products |-> ProductSeq({s, s + 1}),
   variants |-> << V(s, s), V(s + 1, s + 1), V(s + 2, s + 2) >>]

FleetSecondary(s) ==
  [products |-> ProductSeq({s, s + 1, s + 2}),
   variants |-> << V(s, s), V(s + 1, s + 1), V(s + 2, s + 2) >>]

\* the first shop has a secondary language, the others have none
FleetConfig(s) ==
  IF s = 1 THEN CHOOSE c \in LangConfigs : Len(c) = 3 /\ c[1].is_default
           ELSE CHOOSE c \in LangConfigs : Len(c) = 1

FleetStored == {1, 2, 3}
FleetStoredVariants == {<<1, 1>>, <<2, 2>>, <<3, 3>>}

\* every roster drawn from the shops 1..NumShops; the shops in `down` have a
\* remote API that fails every request
InitFleet ==
  \E roster \in SUBSET (1..NumShops) :
    \E down \in SUBSET roster :
      LET ids == SortedSeq(roster)
      IN Setup([i \in 1..Len(ids) |-> Shop(ids[i], FleetConfig(ids[i]))],
               [api_key |-> roster, api_secret |-> roster],
               [s \in roster |->
                  [mode |-> IF s \in down THEN "down" ELSE "up",
                   catalogue |-> Catalogue(FleetConfig(s), FleetBase(s), FleetSecondary(s))]],
               FALSE, "idle",
               UNION {PriorProducts(s, FleetStored) : s \in roster},
               UNION {PriorContent(s, FleetStored) : s \in roster},
               UNION {PriorVariants(s, FleetStoredVariants) : s \in roster},
               UNION {PriorVariantContent(s, FleetStoredVariants) : s \in roster})

FleetNext == FleetStart \/ (\E r \in RunIds : Collect(r)) \/ FleetReport

\* every thread of the pools is scheduled, and every request ends (API_TIMEOUT)
SpecFleet ==
  /\ InitFleet
  /\ [][Next]_vars
  /\ WF_vars(FleetNext)
  /\ \A r \in RunIds : WF_vars(RunNext(r))

(***************************************************************************)
(* One call of fetch_products or fetch_variants on a long collection       *)
(***************************************************************************)
\* collections of up to MaxFullPages full pages, then nothing, one entity, or
\* a page that is one entity short
FetchSizes == {j * LIMIT + k : j \in 0..MaxFullPages, k \in {0, 1, LIMIT - 1}}

LongCatalogue(size) ==
  [products |-> [i \in 1..size |-> P(i)],
   variants |-> [i \in 1..size |-> V(i, 1)]]

InitFetch ==
  \E kind \in Kinds, size \in FetchSizes :
    /\ shops = << Shop(1, CHOOSE c \in LangConfigs : Len(c) = 1) >>
    /\ environ = [api_key |-> {1}, api_secret |-> {1}]
    /\ remote = [s \in {1} |->
                   [mode |-> "flaky", catalogue |-> [l \in Langs |-> LongCatalogue(size)]]]
    /\ db_flaky = FALSE
    /\ prior = [products |-> {}, product_content |-> {},
                variants |-> {}, variant_content |-> {}]
    /\ products = {}
    /\ product_content = {}
    /\ variants = {}
    /\ variant_content = {}
    /\ sync_logs = [r \in {1} |-> NoRow]
    /\ run = [r \in {1} |-> FreshRun]
    /\ task = [r \in {1} |->
                 [k \in Kinds |-> IF k = kind THEN StartedTask("nl") ELSE IdleTask]]
    /\ fleet = [pc |-> "start", collected |-> {}, failed |-> {}, invocation |-> 1]
    /\ trace = [r \in {1} |-> <<>>]

NextFetch == \E r \in RunIds, k \in Kinds : FetchRequest(r, k)

SpecFetch == InitFetch /\ [][NextFetch]_vars


(***************************************************************************)
(* What the properties below speak about                                   *)
(***************************************************************************)
\* the base-language catalogue the remote API serves to run r
BaseCatalogue(r) ==
  remote[shops[r].id].catalogue[BaseLang(shops[r].shop_languages)]

\* the product ids of the base-language fetch
FetchedProductIds(r) == IdsOf(BaseCatalogue(r).products)

\* the variants of the base-language fetch whose parent product is in that fetch
KeptVariantIds(r) ==
  {BaseCatalogue(r).variants[j].id :
     j \in {i \in 1..Len(BaseCatalogue(r).variants) :
              BaseCatalogue(r).variants[i].product \in FetchedProductIds(r)}}

\* run r has made the call (op, table), and it succeeded
DoneOk(r, op, table) ==
  \E i \in 1..Len(trace[r]) :
    trace[r][i].op = op /\ trace[r][i].table = table /\ trace[r][i].ok

\* the cleanup of a table is over: the read succeeded and so did the delete,
\* if there was anything to delete
ProductsCleaned(r) ==
  /\ DoneOk(r, "select", "products")
  /\ run[r].orphaned_products = {} \/ DoneOk(r, "delete", "products")
VariantsCleaned(r) ==
  /\ DoneOk(r, "select", "variants")
  /\ run[r].orphaned_variants = {} \/ DoneOk(r, "delete", "variants")

StoredProductIds(r) == SelectProductIds(products, shops[r].id)
StoredVariantIds(r) == SelectVariantIds(variants, shops[r].id)

(***************************************************************************)
(* C1  Cleanup deletes, from each of products and variants, exactly the    *)
(* ids that were stored for the shop when cleanup read the table and are   *)
(* not among the ids fetched and kept for the base language; no fetched id *)
(* is deleted, and every fetched id is stored afterwards.                  *)
(***************************************************************************)
CleanupDeletesExactlyOrphans ==
  \A r \in Runs :
    /\ run[r].pc = "delete_products" =>
         run[r].existing_product_ids = StoredProductIds(r)
    /\ run[r].pc = "delete_variants" =>
         run[r].existing_variant_ids = StoredVariantIds(r)
    /\ ProductsCleaned(r) =>
         /\ run[r].removed_products =
              {<<shops[r].id, i>> :
                 i \in run[r].existing_product_ids \ FetchedProductIds(r)}
         /\ \A i \in FetchedProductIds(r) :
              <<shops[r].id, i>> \notin run[r].removed_products
    /\ ProductsCleaned(r) /\ ~ VariantsCleaned(r) =>
         StoredProductIds(r) = FetchedProductIds(r)
    /\ VariantsCleaned(r) =>
         /\ run[r].removed_variants =
              {<<shops[r].id, i>> :
                 i \in run[r].existing_variant_ids \ KeptVariantIds(r)}
         /\ \A i \in KeptVariantIds(r) :
              <<shops[r].id, i>> \notin run[r].removed_variants
         /\ KeptVariantIds(r) \subseteq StoredVariantIds(r)
         /\ FetchedProductIds(r) \subseteq StoredProductIds(r)

\* stored {1,2,3,4}, fetched {2,3,5}: {1,4} deleted, 2, 3 and 5 stored
CleanupExampleReached ==
  \E r \in Runs :
    /\ SelectProductIds(prior.products, shops[r].id) = {1, 2, 3, 4}
    /\ SelectVariantIds(prior.variants, shops[r].id) = {1, 2, 3, 4}
    /\ FetchedProductIds(r) = {2, 3, 5}
    /\ VariantsCleaned(r)
    /\ run[r].removed_products = {<<shops[r].id, 1>>, <<shops[r].id, 4>>}
    /\ run[r].removed_variants = {<<shops[r].id, 1>>, <<shops[r].id, 4>>}
    /\ StoredProductIds(r) = {2, 3, 5}
    /\ StoredVariantIds(r) = {2, 3, 5}

(***************************************************************************)
(* C2  When a run has closed its audit row as success, the product ids     *)
(* stored for its shop are those of its base-language fetch and the        *)
(* variant ids stored are those of the fetched variants whose parent       *)
(* product is in that fetch, whatever was stored before.                   *)
(***************************************************************************)
SuccessStoresExactlyTheFetch ==
  \A r \in Runs :
    sync_logs[r].status = "success" =>
      /\ StoredProductIds(r) = FetchedProductIds(r)
      /\ StoredVariantIds(r) = KeptVariantIds(r)

\* a successful run that inserted, kept and deleted rows of both tables
SuccessAfterChangesReached ==
  \E r \in Runs :
    /\ sync_logs[r].status = "success"
    /\ run[r].removed_products # {}
    /\ run[r].removed_variants # {}
    /\ FetchedProductIds(r) \ SelectProductIds(prior.products, shops[r].id) # {}
    /\ FetchedProductIds(r) \cap SelectProductIds(prior.products, shops[r].id) # {}
    /\ KeptVariantIds(r) # {}

(***************************************************************************)
(* What the shop of run r ends with when it is synced alone and nothing    *)
(* fails: the steps of sync_shop applied in order to the rows the shop had *)
(***************************************************************************)
RowsOf(table, shop_id) == {t \in table : t.shop_id = shop_id}

AloneAttached(r) ==
  AttachVariants(BaseCatalogue(r).products, BaseCatalogue(r).variants)

AloneProducts(r) ==
  LET id == shops[r].id
      upserted == BulkUpsert(RowsOf(prior.products, id),
                             ProductRows(id, AloneAttached(r)), ProductCols)
  IN DeleteProductRows(upserted, id,
       Orphaned(SelectProductIds(upserted, id), IdsOf(AloneAttached(r))))

AloneVariants(r) ==
  LET id == shops[r].id
      upserted == BulkUpsert(RowsOf(prior.variants, id),
                             VariantRows(id, AloneAttached(r)), VariantCols)
  IN DeleteVariantRows(upserted, id,
       Orphaned(SelectVariantIds(upserted, id),
                {row.lightspeed_variant_id :
                   row \in Range(VariantRows(id, AloneAttached(r)))}))

RECURSIVE AloneLocalizedProducts(_, _, _)
AloneLocalizedProducts(r, table, langs) ==
  IF langs = <<>> THEN table
  ELSE IF Head(langs) = BaseLang(shops[r].shop_languages)
    THEN AloneLocalizedProducts(r, table, Tail(langs))
    ELSE AloneLocalizedProducts(r,
           BulkUpsert(table,
             LocalizedProductRows(shops[r].id,
               remote[shops[r].id].catalogue[Head(langs)].products, Head(langs),
               IdsOf(AloneAttached(r))),
             ContentCols),
           Tail(langs))

RECURSIVE AloneLocalizedVariants(_, _, _)
AloneLocalizedVariants(r, table, langs) ==
  IF langs = <<>> THEN table
  ELSE IF Head(langs) = BaseLang(shops[r].shop_languages)
    THEN AloneLocalizedVariants(r, table, Tail(langs))
    ELSE AloneLocalizedVariants(r,
           BulkUpsert(table,
             LocalizedVariantRows(shops[r].id,
               remote[shops[r].id].catalogue[Head(langs)].variants, Head(langs),
               {row.lightspeed_variant_id :
                  row \in Range(VariantRows(shops[r].id, AloneAttached(r)))}),
             VariantContentCols),
           Tail(langs))

AloneProductContent(r) ==
  AloneLocalizedProducts(r,
    BulkUpsert(RowsOf(prior.product_content, shops[r].id),
               ContentRows(shops[r].id, AloneAttached(r),
                           BaseLang(shops[r].shop_languages)),
               ContentCols),
    ActiveLangs(shops[r].shop_languages))

AloneVariantContent(r) ==
  AloneLocalizedVariants(r,
    BulkUpsert(RowsOf(prior.variant_content, shops[r].id),
               VariantContentRows(shops[r].id, AloneAttached(r),
                                  BaseLang(shops[r].shop_languages)),
               VariantContentCols),
    ActiveLangs(shops[r].shop_languages))

AloneMetrics(r) ==
  LET id == shops[r].id
      vrows == VariantRows(id, AloneAttached(r))
  IN [products_fetched |-> Len(BaseCatalogue(r).products),
      variants_fetched |-> Len(BaseCatalogue(r).variants),
      products_synced |-> Len(ProductRows(id, AloneAttached(r))),
      variants_synced |-> Len(vrows),
      products_deleted |->
        Cardinality(SelectProductIds(prior.products, id) \ FetchedProductIds(r)),
      variants_deleted |->
        Cardinality(SelectVariantIds(prior.variants, id)
                      \ {row.lightspeed_variant_id : row \in Range(vrows)}),
      variants_filtered |-> Len(BaseCatalogue(r).variants) - Len(vrows)]

\* the shop of run r has the rows and the audit metrics of being synced alone
AsIfAlone(r) ==
  /\ sync_logs[r].status = "success"
  /\ sync_logs[r].shop_id = shops[r].id
  /\ sync_logs[r].metrics = AloneMetrics(r)
  /\ RowsOf(products, shops[r].id) = AloneProducts(r)
  /\ RowsOf(product_content, shops[r].id) = AloneProductContent(r)
  /\ RowsOf(variants, shops[r].id) = AloneVariants(r)
  /\ RowsOf(variant_content, shops[r].id) = AloneVariantContent(r)

\* the shop of run r has an audit row that says error and why
FailedWithMessage(r) ==
  /\ sync_logs[r].status = "error"
  /\ sync_logs[r].shop_id = shops[r].id
  /\ sync_logs[r].error_message \notin {"NULL", ""}

Down(r) == remote[shops[r].id].mode = "down"

\* a step that changes the rows or the audit row of a shop is a step of that
\* shop's own run
OnlyOwnRunTouchesShop ==
  \A r \in Runs :
    (\/ RowsOf(products, shops[r].id)' # RowsOf(products, shops[r].id)
     \/ RowsOf(product_content, shops[r].id)' # RowsOf(product_content, shops[r].id)
     \/ RowsOf(variants, shops[r].id)' # RowsOf(variants, shops[r].id)
     \/ RowsOf(variant_content, shops[r].id)' # RowsOf(variant_content, shops[r].id)
     \/ sync_logs[r]' # sync_logs[r])
    => /\ run[r]' # run[r]
       /\ \A q \in Runs \ {r} : run[q]' = run[q]

(***************************************************************************)
(* C3  Fleet isolation.  For every roster synced concurrently and every    *)
(* subset of its shops whose remote API fails every request: each other    *)
(* shop ends with audit status success and with the stored rows and the    *)
(* metrics it has when synced alone; each failing shop ends with audit     *)
(* status error and a non-empty error message; and no step of one shop's   *)
(* run changes the rows, the audit row or the progress of another shop.    *)
(***************************************************************************)
FleetIsolation ==
  /\ <>[](\A r \in Runs : IF Down(r) THEN FailedWithMessage(r) ELSE AsIfAlone(r))
  /\ [][OnlyOwnRunTouchesShop]_vars

\* two shops synced together, the first failing, the second ending as if alone
\* with rows inserted, replaced and deleted
IsolationReached ==
  /\ Len(shops) >= 2
  /\ \E r \in Runs, q \in Runs :
       /\ Down(r) /\ FailedWithMessage(r)
       /\ ~ Down(q) /\ AsIfAlone(q)
       /\ sync_logs[q].metrics.products_deleted > 0
       /\ sync_logs[q].metrics.variants_filtered > 0
       /\ RowsOf(products, shops[q].id) # RowsOf(prior.products, shops[q].id)
       /\ RowsOf(products, shops[r].id) = RowsOf(prior.products, shops[r].id)

(***************************************************************************)
(* The audit writes of run r, as positions of its trace                    *)
(***************************************************************************)
AuditInserts(r) == {i \in 1..Len(trace[r]) : trace[r][i].op = "insert"}
AuditUpdates(r) == {i \in 1..Len(trace[r]) : trace[r][i].op = "update"}
Written(r, I) == {i \in I : trace[r][i].ok}
AllOk(r) == \A i \in 1..Len(trace[r]) : trace[r][i].ok

SecondaryLangs(r) ==
  {l \in Range(ActiveLangs(shops[r].shop_languages)) :
     l # BaseLang(shops[r].shop_languages)}

\* every step of the pipeline has been made and none of them failed
PipelineCompleted(r) ==
  /\ AllOk(r)
  /\ \E i \in 1..Len(trace[r]) : trace[r][i].op = "credentials"
  /\ \E i \in 1..Len(trace[r]) :
       trace[r][i].op = "join" /\ trace[r][i].lang = BaseLang(shops[r].shop_languages)
  /\ \E i \in 1..Len(trace[r]) : trace[r][i].op = "attach"
  /\ \A t \in {"products", "product_content", "variants", "variant_content"} :
       \E i \in 1..Len(trace[r]) :
         /\ trace[r][i].op = "upsert" /\ trace[r][i].table = t
         /\ trace[r][i].lang = BaseLang(shops[r].shop_languages)
  /\ ProductsCleaned(r)
  /\ VariantsCleaned(r)
  /\ \A l \in SecondaryLangs(r) :
       \A t \in {"product_content", "variant_content"} :
         \E i \in 1..Len(trace[r]) :
           trace[r][i].op = "upsert" /\ trace[r][i].table = t /\ trace[r][i].lang = l

\* the metrics a run has gathered, read off the steps it has made
GatheredSoFar(r) ==
  LET joined == \E i \in 1..Len(trace[r]) :
                  /\ trace[r][i].op = "join" /\ trace[r][i].ok
                  /\ trace[r][i].lang = BaseLang(shops[r].shop_languages)
      attached == \E i \in 1..Len(trace[r]) : trace[r][i].op = "attach"
  IN [products_fetched |-> IF joined THEN Len(BaseCatalogue(r).products) ELSE 0,
      variants_fetched |-> IF joined THEN Len(BaseCatalogue(r).variants) ELSE 0,
      products_synced |-> IF attached THEN Len(run[r].product_rows) ELSE 0,
      variants_synced |-> IF attached THEN Len(run[r].variant_rows) ELSE 0,
      variants_filtered |->
        IF attached THEN Len(BaseCatalogue(r).variants) - Len(run[r].variant_rows)
                    ELSE 0,
      products_deleted |-> Cardinality(run[r].removed_products),
      variants_deleted |-> Cardinality(run[r].removed_variants)]

AuditRowLifecycle(r) ==
  \* the insert is the first call of the run and is made once
  /\ AuditInserts(r) = (IF trace[r] = <<>> THEN {} ELSE {1})
  /\ sync_logs[r].status = "none" <=> Written(r, AuditInserts(r)) = {}
  \* a run whose insert failed raises at once and never updates
  /\ (AuditInserts(r) # {} /\ Written(r, AuditInserts(r)) = {}) =>
       /\ Len(trace[r]) = 1
       /\ run[r].pc = "raised"
  \* at most one update is written; a second update is attempted only when the
  \* success update failed, and it is the error update
  /\ Cardinality(Written(r, AuditUpdates(r))) <= 1
  /\ Cardinality(AuditUpdates(r)) <= 2
  /\ \A i \in AuditUpdates(r), j \in AuditUpdates(r) :
       i < j => /\ trace[r][i].lang = "success" /\ ~ trace[r][i].ok
                /\ trace[r][j].lang = "error"
  /\ AuditUpdates(r) # {} => Written(r, AuditInserts(r)) # {}
  \* success: written by the success update, after a pipeline without error
  /\ sync_logs[r].status = "success" <=>
       \E i \in Written(r, AuditUpdates(r)) : trace[r][i].lang = "success"
  /\ sync_logs[r].status = "success" =>
       /\ PipelineCompleted(r)
       /\ run[r].pc = "returned"
       /\ run[r].exc = "none"
       /\ sync_logs[r].completed
       /\ sync_logs[r].error_message = "NULL"
       /\ sync_logs[r].metrics = run[r].metrics
       /\ sync_logs[r].metrics = GatheredSoFar(r)
  \* error: written by the error update, with the message of the exception and
  \* the metrics gathered so far, and the exception is raised again
  /\ sync_logs[r].status = "error" <=>
       \E i \in Written(r, AuditUpdates(r)) : trace[r][i].lang = "error"
  /\ sync_logs[r].status = "error" =>
       /\ ~ AllOk(r)
       /\ run[r].pc = "raised"
       /\ run[r].exc \in {"Missing API credentials", "RequestException", "APIError"}
       /\ sync_logs[r].completed
       /\ sync_logs[r].error_message = run[r].exc
       /\ sync_logs[r].metrics = GatheredSoFar(r)
  \* a run that has ended: if its audit writes were all accepted, the row is
  \* terminal and the one update is the last call of the run; the row is still
  \* running exactly when the error update was refused
  /\ Ended(r) =>
       /\ (\A i \in AuditInserts(r) \cup AuditUpdates(r) : trace[r][i].ok) =>
            /\ sync_logs[r].status \in {"success", "error"}
            /\ Cardinality(AuditUpdates(r)) = 1
            /\ AuditUpdates(r) = {Len(trace[r])}
            /\ sync_logs[r].status = "success" <=> PipelineCompleted(r)
       /\ sync_logs[r].status = "running" <=>
            /\ Len(trace[r]) > 1
            /\ trace[r][Len(trace[r])].op = "update"
            /\ trace[r][Len(trace[r])].lang = "error"
            /\ ~ trace[r][Len(trace[r])].ok
       /\ run[r].pc = "returned" <=> sync_logs[r].status = "success"

\* a row that says success or error is never written again
TerminalIsFinal ==
  \A r \in Runs :
    sync_logs[r].status \in {"success", "error"} => sync_logs[r]' = sync_logs[r]

(***************************************************************************)
(* C4  Audit lifecycle of one run.  The run first inserts one audit row    *)
(* with status running.  At most one update of the row is written.  It is  *)
(* the success update, carrying the final metrics, only if credentials,    *)
(* base fetch, attach, the four upserts, both cleanups and every secondary *)
(* pass were made without error; otherwise it is the error update,         *)
(* carrying the exception's message and the metrics gathered so far, and   *)
(* the run raises.  A row that says success or error never changes.  When  *)
(* the run has ended and its audit writes were accepted the row is         *)
(* terminal; a row is left running after its run exactly when the error    *)
(* update itself was refused, and no row exists when the insert was.       *)
(***************************************************************************)
AuditLifecycle ==
  /\ [](\A r \in Runs : AuditRowLifecycle(r))
  /\ [][TerminalIsFinal]_vars

\* a run that failed after its base fetch: the row says error, with the message
\* and the counts fetched
AuditErrorAfterFetchReached ==
  \E r \in Runs :
    /\ Ended(r)
    /\ sync_logs[r].status = "error"
    /\ sync_logs[r].error_message = "APIError"
    /\ sync_logs[r].metrics.products_fetched > 0
    /\ sync_logs[r].metrics.products_deleted > 0
    /\ Cardinality(AuditUpdates(r)) = 1

\* C4 as it is stated: one row inserted, exactly one terminal update, and no
\* row left running after its run has ended
AuditLifecycleAsStated ==
  \A r \in Runs :
    /\ run[r].pc \notin {"idle", "insert_log"} =>
         /\ Cardinality(AuditInserts(r)) = 1
         /\ sync_logs[r].status # "none"
    /\ Cardinality(AuditUpdates(r)) <= 1
    /\ Ended(r) =>
         /\ Cardinality(AuditUpdates(r)) = 1
         /\ sync_logs[r].status \in {"success", "error"}
         /\ sync_logs[r].status = "success" <=> PipelineCompleted(r)

(***************************************************************************)
(* One call of the fetcher: the collection it reads and what it has asked  *)
(***************************************************************************)
Calls == {c \in Runs \X Kinds : task[c[1]][c[2]].st # "idle"}
Call(c) == task[c[1]][c[2]]
Collection(c) == remote[shops[c[1]].id].catalogue[Call(c).lang][c[2]]

\* no request of the call has failed
FailureFree(c) == \A i \in 1..Len(Call(c).reqs) : Call(c).reqs[i].ok

\* the call has returned, having asked for pages 1..n once each, in order
AskedPages(c, n) ==
  /\ Len(Call(c).reqs) = n
  /\ \A i \in 1..n : Call(c).reqs[i].page = i

(***************************************************************************)
(* C5  Pagination with a short last page.  A call that returns from a      *)
(* failure-free source holding j full pages and then a page of k entities, *)
(* 0 < k < LIMIT (j = 3 included), returns the j*LIMIT + k entities of the *)
(* collection in page order and has issued exactly the j + 1 requests for  *)
(* pages 1..j+1; and in every call, a request answered with fewer than     *)
(* LIMIT entities is the last request of the call.                         *)
(***************************************************************************)
ShortLastPageEndsFetch ==
  \A c \in Calls :
    /\ (/\ Call(c).st = "done"
        /\ FailureFree(c)
        /\ Len(Collection(c)) % LIMIT # 0)
       => /\ Returned(Call(c)) = Collection(c)
          /\ AskedPages(c, (Len(Collection(c)) \div LIMIT) + 1)
          /\ \A i \in 1..Len(Call(c).reqs) :
               Call(c).reqs[i].n =
                 IF i <= Len(Collection(c)) \div LIMIT
                   THEN LIMIT ELSE Len(Collection(c)) % LIMIT
    /\ \A i \in 1..Len(Call(c).reqs) :
         (Call(c).reqs[i].ok /\ Call(c).reqs[i].n < LIMIT) => i = Len(Call(c).reqs)

\* pages of sizes [N, N, N, 1]: 3N + 1 entities returned after 4 requests
ShortLastPageReached ==
  \E c \in Calls :
    /\ Call(c).st = "done"
    /\ FailureFree(c)
    /\ Len(Collection(c)) = 3 * LIMIT + 1
    /\ Len(Returned(Call(c))) = 3 * LIMIT + 1
    /\ AskedPages(c, 4)
    /\ Call(c).reqs[4].n = 1

(***************************************************************************)
(* C6  Pagination when the collection size is an exact multiple of the     *)
(* page size.  A call that returns from a failure-free source holding j    *)
(* full pages and nothing more (j = 3 included) returns the j*LIMIT        *)
(* entities and has issued j + 1 requests, for pages 1..j+1: the last one  *)
(* is answered with no entity.                                             *)
(***************************************************************************)
ExactMultipleTakesOneMoreRequest ==
  \A c \in Calls :
    (/\ Call(c).st = "done"
     /\ FailureFree(c)
     /\ Len(Collection(c)) % LIMIT = 0)
    => /\ Returned(Call(c)) = Collection(c)
       /\ AskedPages(c, (Len(Collection(c)) \div LIMIT) + 1)
       /\ \A i \in 1..Len(Call(c).reqs) :
            Call(c).reqs[i].n = IF i <= Len(Collection(c)) \div LIMIT THEN LIMIT ELSE 0

\* pages of sizes [N, N, N, 0]: 3N entities returned after 4 requests
ExactMultipleReached ==
  \E c \in Calls :
    /\ Call(c).st = "done"
    /\ FailureFree(c)
    /\ Len(Collection(c)) = 3 * LIMIT
    /\ Len(Returned(Call(c))) = 3 * LIMIT
    /\ AskedPages(c, 4)
    /\ Call(c).reqs[4].n = 0

\* C6 as it is stated: pages of sizes [N, N, N, 0] cost exactly 3 requests
ExactMultipleTakesThreeRequests ==
  \A c \in Calls :
    (/\ Call(c).st = "done"
     /\ FailureFree(c)
     /\ Len(Collection(c)) = 3 * LIMIT)
    => Len(Call(c).reqs) = 3

(***************************************************************************)
(* C7  Retry exhaustion as it is stated: a call that raises has made, for  *)
(* the page it gave up on, exactly 3 attempts, all failed, with the        *)
(* backoff delays 1s, 2s, 4s before it raised, and returns no entity.      *)
(***************************************************************************)
LastAttempts(c) ==
  SubSeq(Call(c).reqs, Len(Call(c).reqs) - MAX_RETRIES + 1, Len(Call(c).reqs))

RetryExhaustionAsStated ==
  \A c \in Calls :
    Call(c).st = "failed" =>
      /\ Len(Call(c).reqs) >= MAX_RETRIES
      /\ \A i \in 1..MAX_RETRIES :
           /\ ~ LastAttempts(c)[i].ok
           /\ LastAttempts(c)[i].page = Call(c).page
      /\ Cardinality({i \in 1..Len(Call(c).reqs) :
                        Call(c).reqs[i].page = Call(c).page}) = MAX_RETRIES
      /\ [i \in 1..MAX_RETRIES |-> LastAttempts(c)[i].slept] = <<1, 2, 4>>
      /\ Returned(Call(c)) = <<>>

\* what the call does instead: it sleeps 1s and 2s between the three attempts
\* and raises straight after the third
RetryExhaustionSleepsTwice ==
  \A c \in Calls :
    Call(c).st = "failed" =>
      /\ Len(Call(c).reqs) >= MAX_RETRIES
      /\ \A i \in 1..MAX_RETRIES :
           /\ ~ LastAttempts(c)[i].ok
           /\ LastAttempts(c)[i].page = Call(c).page
      /\ Cardinality({i \in 1..Len(Call(c).reqs) :
                        Call(c).reqs[i].page = Call(c).page}) = MAX_RETRIES
      /\ [i \in 1..MAX_RETRIES |-> LastAttempts(c)[i].slept] = <<1, 2, 0>>
      /\ Returned(Call(c)) = <<>>

\* a call that gave up on its first page
RetryExhaustionReached ==
  \E c \in Calls :
    /\ Call(c).st = "failed"
    /\ Len(Call(c).reqs) = MAX_RETRIES
    /\ Call(c).page = 1

(***************************************************************************)
(* attach_variants in a run: its inputs are the two base-language          *)
(* collections, its output is run[r].products                              *)
(***************************************************************************)
HasAttached(r) == \E i \in 1..Len(trace[r]) : trace[r][i].op = "attach"

\* the positions of the variants that reference product pid
Referencing(r, pid) ==
  {j \in 1..Len(BaseCatalogue(r).variants) : BaseCatalogue(r).variants[j].product = pid}

\* the variants that reference a product id which is not among the products
OrphanVariants(r) ==
  {j \in 1..Len(BaseCatalogue(r).variants) :
     /\ BaseCatalogue(r).variants[j].product # NoProduct
     /\ BaseCatalogue(r).variants[j].product \notin FetchedProductIds(r)}

\* the variants that carry no product reference at all
UnreferencedVariants(r) == Referencing(r, NoProduct)

VariantIdsAt(r, J) == {BaseCatalogue(r).variants[j].id : j \in J}

\* every input product is returned, in order, with exactly the variants that
\* reference its id, in order and without their relation field
AttachedExactly(r) ==
  /\ Len(run[r].products) = Len(BaseCatalogue(r).products)
  /\ \A i \in 1..Len(run[r].products) :
       LET p == run[r].products[i]
           refs == SortedSeq(Referencing(r, p.id))
       IN /\ p.id = BaseCatalogue(r).products[i].id
          /\ p.data = BaseCatalogue(r).products[i].data
          /\ p.variants =
               [j \in 1..Len(refs) |->
                  [id |-> BaseCatalogue(r).variants[refs[j]].id,
                   data |-> BaseCatalogue(r).variants[refs[j]].data]]

\* the variants at positions J are in no product's list and in no row
Excluded(r, J) ==
  /\ \A i \in 1..Len(run[r].products) :
       IdsOf(run[r].products[i].variants) \cap VariantIdsAt(r, J) = {}
  /\ \A i \in 1..Len(run[r].variant_rows) :
       run[r].variant_rows[i].lightspeed_variant_id \notin VariantIdsAt(r, J)
  /\ \A i \in 1..Len(run[r].variant_content_rows) :
       run[r].variant_content_rows[i].lightspeed_variant_id \notin VariantIdsAt(r, J)
  /\ \A t \in variants \cup variant_content :
       (t.shop_id = shops[r].id /\ t.lightspeed_variant_id \in VariantIdsAt(r, J))
         => t.data = "old"

\* the variant ids the printed warnings list, and how many they announce
ReportedIds(r) == UNION {w.variant_ids : w \in run[r].report}
ReportedCount(r) == Cardinality(ReportedIds(r))

\* attach_variants does not raise, and a run with orphans is carried on
NotAborted(r) ==
  /\ \A i \in 1..Len(trace[r]) : trace[r][i].op = "attach" => trace[r][i].ok
  /\ (Len(trace[r]) > 0 /\ trace[r][Len(trace[r])].op = "attach")
       => run[r].pc = "upsert_products"

(***************************************************************************)
(* C8  Orphan filtering in attach_variants.  Every input product is        *)
(* returned with a variants list holding exactly the variants that         *)
(* reference its id.  A variant that references an absent product id, or   *)
(* that carries no product reference, is in no product's list and in no    *)
(* variant or variant-content row.  The printed warnings list exactly the  *)
(* variants that reference an absent product id, grouped by that id; the   *)
(* counted number (metric variants_filtered) is the number of variants     *)
(* attached to no product, those without a reference included.  The run    *)
(* is not aborted.                                                         *)
(***************************************************************************)
OrphansExcludedAndSignalled ==
  \A r \in Runs :
    /\ NotAborted(r)
    /\ HasAttached(r) =>
         /\ AttachedExactly(r)
         /\ Excluded(r, OrphanVariants(r) \cup UnreferencedVariants(r))
         /\ ReportedIds(r) = VariantIdsAt(r, OrphanVariants(r))
         /\ \A w \in run[r].report :
              /\ w.product \notin FetchedProductIds(r)
              /\ w.variant_ids = VariantIdsAt(r, Referencing(r, w.product))
              /\ w.variant_ids # {}
         /\ \A j \in OrphanVariants(r) :
              \E w \in run[r].report : w.product = BaseCatalogue(r).variants[j].product
         /\ run[r].metrics.variants_filtered =
              Cardinality(OrphanVariants(r)) + Cardinality(UnreferencedVariants(r))

\* 5 products, 7 variants, 2 of them referencing product 6: the 5 products are
\* returned, the warning names the 2 orphans, and the run ends in success
OrphanExampleReached ==
  \E r \in Runs :
    /\ Len(BaseCatalogue(r).products) = 5
    /\ Len(BaseCatalogue(r).variants) = 7
    /\ HasAttached(r)
    /\ Len(run[r].products) = 5
    /\ \A i \in 1..5 : Len(run[r].products[i].variants) = 1
    /\ run[r].report = {[product |-> 6, variant_ids |-> {6, 7}]}
    /\ run[r].metrics.variants_filtered = 2
    /\ Len(run[r].variant_rows) = 5
    /\ sync_logs[r].status = "success"
    /\ sync_logs[r].metrics.variants_filtered = 2

\* C8 as it is stated: the number reported and the number counted are both the
\* number of variants that reference an absent product id
OrphansReportedAndCountedAlike ==
  \A r \in Runs :
    /\ NotAborted(r)
    /\ HasAttached(r) =>
         /\ AttachedExactly(r)
         /\ Excluded(r, OrphanVariants(r))
         /\ ReportedCount(r) = Cardinality(OrphanVariants(r))
         /\ run[r].metrics.variants_filtered = Cardinality(OrphanVariants(r))

(***************************************************************************)
(* A secondary-language pass of run r                                      *)
(***************************************************************************)
\* what the remote API serves for language l
Localized(r, l) == remote[shops[r].id].catalogue[l]

\* the run has joined the fetches of the pass for its current language
PassJoined(r) ==
  /\ run[r].lang \in SecondaryLangs(r)
  /\ \E i \in 1..Len(trace[r]) :
       trace[r][i].op = "join" /\ trace[r][i].lang = run[r].lang /\ trace[r][i].ok

\* the ids stored for the shop of run r in a content table, for language l
StoredProductContentIds(r, l) ==
  {t.lightspeed_product_id :
     t \in {u \in product_content : u.shop_id = shops[r].id /\ u.language_code = l}}
StoredVariantContentIds(r, l) ==
  {t.lightspeed_variant_id :
     t \in {u \in variant_content : u.shop_id = shops[r].id /\ u.language_code = l}}

UpsertedOk(r, table, l) ==
  \E i \in 1..Len(trace[r]) :
    /\ trace[r][i].op = "upsert" /\ trace[r][i].table = table
    /\ trace[r][i].lang = l /\ trace[r][i].ok

(***************************************************************************)
(* C9  Secondary-language filtering.  In each secondary-language pass a    *)
(* product-content (variant-content) row is built, and then upserted, for  *)
(* a fetched entity if and only if its id is among the product ids of the  *)
(* run's base-language fetch (the ids of its fetched variants whose parent *)
(* product was fetched); the filtered count is the number fetched minus    *)
(* the number written; nothing is ever stored for a filtered entity.       *)
(***************************************************************************)
SecondaryPassWritesOnlyValid ==
  \A r \in Runs :
    /\ PassJoined(r) =>
         LET lp == Localized(r, run[r].lang).products
             lv == Localized(r, run[r].lang).variants
         IN /\ \A i \in 1..Len(lp) :
                 (\E j \in 1..Len(run[r].localized_product_rows) :
                    /\ run[r].localized_product_rows[j].lightspeed_product_id = lp[i].id
                    /\ run[r].localized_product_rows[j].language_code = run[r].lang
                    /\ run[r].localized_product_rows[j].shop_id = shops[r].id)
                 <=> lp[i].id \in FetchedProductIds(r)
            /\ \A i \in 1..Len(lv) :
                 (\E j \in 1..Len(run[r].localized_variant_rows) :
                    /\ run[r].localized_variant_rows[j].lightspeed_variant_id = lv[i].id
                    /\ run[r].localized_variant_rows[j].language_code = run[r].lang
                    /\ run[r].localized_variant_rows[j].shop_id = shops[r].id)
                 <=> lv[i].id \in KeptVariantIds(r)
            /\ Len(run[r].localized_product_rows) =
                 Cardinality(IdsOf(lp) \cap FetchedProductIds(r))
            /\ Len(run[r].localized_variant_rows) =
                 Cardinality(IdsOf(lv) \cap KeptVariantIds(r))
            /\ run[r].filtered_products = Len(lp) - Len(run[r].localized_product_rows)
            /\ run[r].filtered_variants = Len(lv) - Len(run[r].localized_variant_rows)
            /\ run[r].filtered_products = Cardinality(IdsOf(lp) \ FetchedProductIds(r))
            /\ run[r].filtered_variants = Cardinality(IdsOf(lv) \ KeptVariantIds(r))
    /\ \A l \in SecondaryLangs(r) :
         /\ StoredProductContentIds(r, l) =
              IF UpsertedOk(r, "product_content", l)
                THEN IdsOf(Localized(r, l).products) \cap FetchedProductIds(r)
                ELSE {}
         /\ StoredVariantContentIds(r, l) =
              IF UpsertedOk(r, "variant_content", l)
                THEN IdsOf(Localized(r, l).variants) \cap KeptVariantIds(r)
                ELSE {}

\* valid ids {10,11}, localized fetch {10,11,12}: rows written for 10 and 11
\* only, filtered count 1
SecondaryExampleReached ==
  \E r \in Runs :
    /\ FetchedProductIds(r) = {10, 11}
    /\ PassJoined(r)
    /\ IdsOf(run[r].localized_products) = {10, 11, 12}
    /\ UpsertedOk(r, "product_content", run[r].lang)
    /\ UpsertedOk(r, "variant_content", run[r].lang)
    /\ StoredProductContentIds(r, run[r].lang) = {10, 11}
    /\ StoredVariantContentIds(r, run[r].lang) = {10, 11}
    /\ run[r].filtered_products = 1
    /\ run[r].filtered_variants = 1

(***************************************************************************)
(* The order of the calls of run r, read off its trace                     *)
(***************************************************************************)
IsBase(r, i) == trace[r][i].lang = BaseLang(shops[r].shop_languages)

BaseUpsert(r, i, table) ==
  trace[r][i].op = "upsert" /\ trace[r][i].table = table /\ IsBase(r, i)

IsCleanup(r, i, table) ==
  trace[r][i].op \in {"select", "delete"} /\ trace[r][i].table = table

\* a secondary-language call: the submission of its fetches, their join, or one
\* of its two upserts
IsSecondary(r, i) ==
  trace[r][i].op \in {"fetch", "join", "upsert"} /\ ~ IsBase(r, i)

\* the base upsert of `table` has completed before call i
UpsertedBefore(r, i, table) ==
  \E j \in 1..(i - 1) : BaseUpsert(r, j, table) /\ trace[r][j].ok

\* the cleanup of `table` has completed before call i: its read succeeded, and
\* its delete too when there was something to delete
CleanedBefore(r, i, table, orphaned) ==
  /\ \E j \in 1..(i - 1) :
       trace[r][j].op = "select" /\ trace[r][j].table = table /\ trace[r][j].ok
  /\ orphaned # {} =>
       \E j \in 1..(i - 1) :
         trace[r][j].op = "delete" /\ trace[r][j].table = table /\ trace[r][j].ok

(***************************************************************************)
(* C10  Step ordering within one run.  The products upsert has completed   *)
(* before the product_content upsert starts, and the variants upsert       *)
(* before the variant_content upsert.  Every cleanup read and delete comes *)
(* after the four base-language upsert calls have completed, and every     *)
(* read or delete of variants after the cleanup of products has completed. *)
(* Every secondary-language fetch (its submission, each of its requests,   *)
(* its join) and upsert comes after both cleanups have completed.          *)
(***************************************************************************)
StepsInOrder ==
  \A r \in Runs :
    /\ \A i \in 1..Len(trace[r]) :
         /\ BaseUpsert(r, i, "product_content") => UpsertedBefore(r, i, "products")
         /\ BaseUpsert(r, i, "variant_content") => UpsertedBefore(r, i, "variants")
         /\ (IsCleanup(r, i, "products") \/ IsCleanup(r, i, "variants")) =>
              \A t \in {"products", "product_content", "variants", "variant_content"} :
                UpsertedBefore(r, i, t)
         /\ IsCleanup(r, i, "variants") =>
              CleanedBefore(r, i, "products", run[r].orphaned_products)
         /\ IsSecondary(r, i) =>
              /\ CleanedBefore(r, i, "products", run[r].orphaned_products)
              /\ CleanedBefore(r, i, "variants", run[r].orphaned_variants)
    /\ \A k \in Kinds :
         (task[r][k].st # "idle"
          /\ task[r][k].lang # BaseLang(shops[r].shop_languages)) =>
           /\ ProductsCleaned(r)
           /\ VariantsCleaned(r)

\* a run that made every kind of call: the four upserts, both reads, both
\* deletes, and two secondary-language passes
FullPipelineReached ==
  \E r \in Runs :
    /\ sync_logs[r].status = "success"
    /\ DoneOk(r, "delete", "products")
    /\ DoneOk(r, "delete", "variants")
    /\ Cardinality(SecondaryLangs(r)) = 2
    /\ \A l \in SecondaryLangs(r) :
         /\ UpsertedOk(r, "product_content", l)
         /\ UpsertedOk(r, "variant_content", l)
         /\ StoredProductContentIds(r, l) # {}

(***************************************************************************)
(* A run after one of its calls has failed                                 *)
(***************************************************************************)
FailedUpserts(r) ==
  {i \in 1..Len(trace[r]) : trace[r][i].op = "upsert" /\ ~ trace[r][i].ok}

\* after call i the run has made no call but the error update of its audit row
NothingAfter(r, i) ==
  \A j \in (i + 1)..Len(trace[r]) :
    trace[r][j].op = "update" /\ trace[r][j].lang = "error"

\* the rows handed to the successful upsert of `table` for language l
RowsUpserted(r, table, l) ==
  IF l = BaseLang(shops[r].shop_languages)
    THEN CASE table = "products" -> Range(run[r].product_rows)
           [] table = "product_content" -> Range(run[r].content_rows)
           [] table = "variants" -> Range(run[r].variant_rows)
           [] OTHER -> Range(run[r].variant_content_rows)
    ELSE IF table = "product_content"
      THEN Range(LocalizedProductRows(shops[r].id, Localized(r, l).products, l,
                                      FetchedProductIds(r)))
      ELSE Range(LocalizedVariantRows(shops[r].id, Localized(r, l).variants, l,
                                      KeptVariantIds(r)))

TableNamed(name) ==
  CASE name = "products" -> products
    [] name = "product_content" -> product_content
    [] name = "variants" -> variants
    [] OTHER -> variant_content

\* the rows written by the upserts that succeeded before call i are stored
EarlierUpsertsKept(r, i) ==
  \A j \in 1..(i - 1) :
    (trace[r][j].op = "upsert" /\ trace[r][j].ok) =>
      RowsUpserted(r, trace[r][j].table, trace[r][j].lang)
        \subseteq TableNamed(trace[r][j].table)

\* the error update of the audit row was made and accepted
ErrorUpdateAccepted(r) ==
  \E i \in Written(r, AuditUpdates(r)) : trace[r][i].lang = "error"

\* the error update of the audit row was made and refused
ErrorUpdateRefused(r) ==
  \E i \in AuditUpdates(r) : trace[r][i].lang = "error" /\ ~ trace[r][i].ok

UpsertFailureStops(r) ==
  \A i \in FailedUpserts(r) :
    /\ FailedUpserts(r) = {i}
    /\ NothingAfter(r, i)
    /\ run[r].pc \in {"except", "raised"}
    /\ sync_logs[r].status # "success"
    /\ EarlierUpsertsKept(r, i)
    /\ \A k \in Kinds : task[r][k].st = "idle"

\* once an upsert of run r has failed, no table and no fetch task changes
FrozenAfterUpsertFailure ==
  \A r \in Runs :
    FailedUpserts(r) # {} => /\ UNCHANGED tables
                             /\ task'[r] = task[r]

(***************************************************************************)
(* C11  A failed bulk upsert is fatal and not rolled back.  When a         *)
(* bulk_upsert call of a run raises, the call is not made again, the run   *)
(* makes no later step (no upsert, no cleanup read or delete, no           *)
(* secondary-language pass) but the error update of its audit row, no      *)
(* table changes any more, and the rows written by its earlier upserts     *)
(* stay stored.  The audit row closes as error with the message of the     *)
(* exception and the metrics gathered up to that point if that update is   *)
(* accepted, and stays running if it is refused.                           *)
(***************************************************************************)
UpsertFailureIsFatal ==
  /\ [](\A r \in Runs :
          /\ UpsertFailureStops(r)
          /\ (FailedUpserts(r) # {} /\ Ended(r)) =>
               /\ run[r].pc = "raised"
               /\ ErrorUpdateAccepted(r) \/ ErrorUpdateRefused(r)
               /\ ErrorUpdateAccepted(r) =>
                    /\ sync_logs[r].status = "error"
                    /\ sync_logs[r].error_message = "APIError"
                    /\ sync_logs[r].metrics = GatheredSoFar(r)
               /\ ErrorUpdateRefused(r) => sync_logs[r].status = "running")
  /\ [][FrozenAfterUpsertFailure]_vars

\* the variants upsert failed after the products were replaced: the new product
\* rows are stored and the audit row says error with the counts so far
UpsertFailureReached ==
  \E r \in Runs :
    /\ \E i \in FailedUpserts(r) : trace[r][i].table = "variants"
    /\ Ended(r)
    /\ run[r].product_rows # <<>>
    /\ Range(run[r].product_rows) \subseteq products
    /\ Range(run[r].content_rows) \subseteq product_content
    /\ products # prior.products
    /\ sync_logs[r].status = "error"
    /\ sync_logs[r].metrics.products_synced > 0
    /\ sync_logs[r].metrics.products_deleted = 0
    /\ SelectProductIds(products, shops[r].id) \ FetchedProductIds(r) # {}

\* C11 as it is stated: after a failed upsert the audit row closes as error
UpsertFailureClosesAsError ==
  \A r \in Runs :
    /\ UpsertFailureStops(r)
    /\ (FailedUpserts(r) # {} /\ Ended(r)) =>
         /\ sync_logs[r].status = "error"
         /\ sync_logs[r].error_message = "APIError"
         /\ sync_logs[r].metrics = GatheredSoFar(r)

(***************************************************************************)
(* A run whose shop has no complete credential pair in the environment     *)
(***************************************************************************)
MissingCredentials(r) ==
  \/ shops[r].tld \notin environ.api_key
  \/ shops[r].tld \notin environ.api_secret

AuditOpened(r) == Written(r, AuditInserts(r)) # {}

\* no request was made, no fetch submitted, and the shop's rows are as before
NothingFetchedOrWritten(r) ==
  /\ \A k \in Kinds : task[r][k] = IdleTask
  /\ \A i \in 1..Len(trace[r]) : trace[r][i].op \in {"insert", "credentials", "update"}
  /\ RowsOf(products, shops[r].id) = RowsOf(prior.products, shops[r].id)
  /\ RowsOf(product_content, shops[r].id) = RowsOf(prior.product_content, shops[r].id)
  /\ RowsOf(variants, shops[r].id) = RowsOf(prior.variants, shops[r].id)
  /\ RowsOf(variant_content, shops[r].id) = RowsOf(prior.variant_content, shops[r].id)

\* the credentials are looked up once, and the run goes straight to the error
\* update of its audit row
FailsAtOnce(r) ==
  /\ Cardinality({i \in 1..Len(trace[r]) : trace[r][i].op = "credentials"}) <= 1
  /\ \A i \in 1..Len(trace[r]) :
       trace[r][i].op = "credentials" => (~ trace[r][i].ok /\ NothingAfter(r, i))
  /\ run[r].pc \in {"insert_log", "idle", "credentials", "except", "raised"}
  /\ run[r].metrics = ZeroMetrics
  /\ sync_logs[r].status # "success"

(***************************************************************************)
(* C12  Missing credentials.  When the API key or the API secret of the    *)
(* shop's tenant key is absent, the run fails at once, without retry: no   *)
(* fetch is submitted and no request issued, no row of products,           *)
(* product_content, variants or variant_content is written or deleted,     *)
(* and the run attempts the error update of the audit row it opened, with  *)
(* every metric still zero: the row closes as error if that update is      *)
(* accepted and stays running if it is refused.                            *)
(***************************************************************************)
MissingCredentialsFailAtOnce ==
  \A r \in Runs :
    MissingCredentials(r) =>
      /\ NothingFetchedOrWritten(r)
      /\ FailsAtOnce(r)
      /\ (Ended(r) /\ AuditOpened(r)) =>
           /\ run[r].exc \in {"Missing API credentials", "APIError"}
           /\ ErrorUpdateAccepted(r) \/ ErrorUpdateRefused(r)
           /\ ErrorUpdateAccepted(r) =>
                /\ sync_logs[r].status = "error"
                /\ sync_logs[r].error_message = "Missing API credentials"
                /\ sync_logs[r].metrics = ZeroMetrics
           /\ ErrorUpdateRefused(r) => sync_logs[r].status = "running"

\* the key is set and the secret is not: the run has ended, the stored rows are
\* untouched and the audit row says error with zero metrics
MissingSecretReached ==
  \E r \in Runs :
    /\ shops[r].tld \in environ.api_key
    /\ shops[r].tld \notin environ.api_secret
    /\ Ended(r)
    /\ sync_logs[r].status = "error"
    /\ sync_logs[r].error_message = "Missing API credentials"
    /\ sync_logs[r].metrics = ZeroMetrics
    /\ products = prior.products
    /\ products # {}
    /\ FetchedProductIds(r) # SelectProductIds(products, shops[r].id)

\* C12 as it is stated: the audit row, once opened, closes as error
MissingCredentialsCloseAsError ==
  \A r \in Runs :
    MissingCredentials(r) =>
      /\ NothingFetchedOrWritten(r)
      /\ FailsAtOnce(r)
      /\ (Ended(r) /\ AuditOpened(r)) =>
           /\ sync_logs[r].status = "error"
           /\ sync_logs[r].error_message = "Missing API credentials"
           /\ sync_logs[r].metrics = ZeroMetrics

(***************************************************************************)
(* One call of sync_shop against a remote whose base-language products or  *)
(* variants fill more than one page, with requests that may fail           *)
(***************************************************************************)
PagedCatalogues ==
  { [products |-> [i \in 1..(LIMIT + 1) |-> P(i)], variants |-> << V(1, 1) >>],
    [products |-> << P(1) >>, variants |-> [i \in 1..(LIMIT + 1) |-> V(i, 1)]] }

InitPaged ==
  \E cfg \in LangConfigs, base \in PagedCatalogues :
    SoloSetup(cfg, [api_key |-> {1}, api_secret |-> {1}], "flaky",
              base, FullCatalogue, {1, 2}, {<<2, 2>>})

SpecPaged == InitPaged /\ [][NextShop]_vars

\* a base-language fetch of the run has raised and the run is still at the join
BaseFetchRaising(r) ==
  /\ run[r].pc = "join_base"
  /\ \E k \in Kinds : task[r][k].st = "failed"

\* the join of the base-language fetches re-raised the exception of a fetch
BaseFetchRaised(r) ==
  {i \in 1..Len(trace[r]) :
     /\ trace[r][i].op = "join"
     /\ trace[r][i].lang = BaseLang(shops[r].shop_languages)
     /\ ~ trace[r][i].ok}

TablesAsBefore ==
  /\ products = prior.products
  /\ product_content = prior.product_content
  /\ variants = prior.variants
  /\ variant_content = prior.variant_content

\* the run holds no entity of either fetch and has written and deleted nothing
NothingOfTheFetchUsed(r) ==
  /\ run[r].products = <<>>
  /\ run[r].variants = <<>>
  /\ run[r].metrics = ZeroMetrics
  /\ \A i \in 1..Len(trace[r]) :
       trace[r][i].op \notin {"attach", "upsert", "select", "delete"}
  /\ TablesAsBefore

\* from a failed base-language fetch the run goes to its except clause only
RaisesAtJoin ==
  \A r \in Runs :
    BaseFetchRaising(r) =>
      /\ run'[r].pc \in {"join_base", "except"}
      /\ run'[r].products = <<>>
      /\ run'[r].variants = <<>>
      /\ UNCHANGED tables

(***************************************************************************)
(* C13  A fetch failure returns nothing partial.  A fetch that gave up on  *)
(* a page returns no entity, those of the pages it had received included;  *)
(* when a base-language fetch has raised, the run takes no entity of       *)
(* either fetch, makes no attach, upsert, cleanup read or delete, ends by  *)
(* raising, and the stored product, variant and content rows stay as they  *)
(* were before the run.                                                    *)
(***************************************************************************)
FetchFailureReturnsNothing ==
  /\ [](\A r \in Runs :
          /\ \A k \in Kinds :
               task[r][k].st = "failed" => Returned(task[r][k]) = <<>>
          /\ BaseFetchRaising(r) => NothingOfTheFetchUsed(r)
          /\ \A i \in BaseFetchRaised(r) :
               /\ NothingOfTheFetchUsed(r)
               /\ NothingAfter(r, i)
               /\ run[r].pc \in {"except", "raised"}
               /\ run[r].exc \in {"RequestException", "APIError"}
               /\ sync_logs[r].status # "success")
  /\ [][RaisesAtJoin]_vars

\* a fetch gave up on its second page after a first page of LIMIT entities, its
\* sibling has returned its collection, and the run is at the join
SecondPageFailureReached ==
  \E r \in Runs, k \in Kinds :
    /\ run[r].pc = "join_base"
    /\ Joined(r)
    /\ task[r][k].st = "failed"
    /\ Len(task[r][k].acc) = LIMIT
    /\ task[r][k].page = 2
    /\ \E s \in Kinds \ {k} : task[r][s].st = "done" /\ task[r][s].acc # <<>>
    /\ products # {}

(***************************************************************************)
(* What a step writes: the rows it adds to or removes from a table         *)
(***************************************************************************)
RowsChanged ==
  UNION {(products' \ products) \cup (products \ products'),
         (product_content' \ product_content) \cup (product_content \ product_content'),
         (variants' \ variants) \cup (variants \ variants'),
         (variant_content' \ variant_content) \cup (variant_content \ variant_content')}

AuditRowsChanged == {q \in Runs : sync_logs'[q] # sync_logs[q]}

\* the runs that take the step
Stepping == {r \in Runs : run'[r] # run[r] \/ task'[r] # task[r]}

\* a step of the run of shop S alone writes rows of S and its own audit row
WritesOnlyOwnShop ==
  \A r \in Runs :
    Stepping = {r} =>
      /\ \A t \in RowsChanged : t.shop_id = shops[r].id
      /\ AuditRowsChanged \subseteq {r}
      /\ \A q \in Runs \ {r} :
           /\ RowsOf(products, shops[q].id)' = RowsOf(products, shops[q].id)
           /\ RowsOf(product_content, shops[q].id)'
                = RowsOf(product_content, shops[q].id)
           /\ RowsOf(variants, shops[q].id)' = RowsOf(variants, shops[q].id)
           /\ RowsOf(variant_content, shops[q].id)'
                = RowsOf(variant_content, shops[q].id)

\* a step that no single run takes writes nothing
OnlyRunsWrite == Cardinality(Stepping) # 1 => (RowsChanged = {} /\ AuditRowsChanged = {})

(***************************************************************************)
(* C14  Cross-shop frame.  Under every interleaving of the shop runs of a  *)
(* roster, each step of the run of a shop S adds, replaces and removes     *)
(* only rows whose shop_id is S and changes no audit row but its own: the  *)
(* rows and the audit row of every other shop are the same after the step  *)
(* as before, and the audit row of a run carries the id of its shop.       *)
(***************************************************************************)
CrossShopFrame ==
  /\ [](\A r \in Runs : sync_logs[r].status # "none" => sync_logs[r].shop_id = shops[r].id)
  /\ [][WritesOnlyOwnShop /\ OnlyRunsWrite]_vars

\* two shops that store the same remote ids have both been synced: each has
\* deleted the product the other kept
BothShopsSyncedReached ==
  /\ Len(shops) = 2
  /\ \A r \in Runs : Ended(r) /\ sync_logs[r].status = "success"
  /\ \E r \in Runs, q \in Runs, i \in FleetStored, j \in FleetStored :
       /\ r # q /\ i # j
       /\ <<shops[r].id, i>> \in {ProductKey(t) : t \in products}
       /\ <<shops[q].id, i>> \notin {ProductKey(t) : t \in products}
       /\ <<shops[q].id, j>> \in {ProductKey(t) : t \in products}
       /\ <<shops[r].id, j>> \notin {ProductKey(t) : t \in products}
       /\ <<shops[r].id, i>> \in {ProductKey(t) : t \in prior.products}
       /\ <<shops[q].id, i>> \in {ProductKey(t) : t \in prior.products}

(***************************************************************************)
(* The passes of a run: a pass starts with the submission of two fetches   *)
(***************************************************************************)
FetchEvents(r) == {i \in 1..Len(trace[r]) : trace[r][i].op = "fetch"}

PassesFor(r, l) == {i \in FetchEvents(r) : trace[r][i].lang = l}

\* the secondary-language passes: every pass but the first, the base fetch
SecondaryPasses(r) == {i \in FetchEvents(r) : \E j \in FetchEvents(r) : j < i}

InactiveLangs(r) == Langs \ Range(ActiveLangs(shops[r].shop_languages))

\* one pass at most per active language other than the base language, no
\* other pass, and all of them made when the run returns
OnePassPerSecondaryLanguage(r) ==
  /\ \A i \in SecondaryPasses(r) : trace[r][i].lang \in SecondaryLangs(r)
  /\ \A l \in Langs : Cardinality(PassesFor(r, l) \cap SecondaryPasses(r)) <= 1
  /\ \A l \in InactiveLangs(r) \cup {BaseLang(shops[r].shop_languages)} :
       PassesFor(r, l) \cap SecondaryPasses(r) = {}
  /\ run[r].pc = "returned" =>
       \A l \in SecondaryLangs(r) :
         Cardinality(PassesFor(r, l) \cap SecondaryPasses(r)) = 1

\* from its first secondary pass on, the run reads and deletes nothing, and
\* its upserts are those of the two content tables for the pass's language
PassesCallContentOnly(r) ==
  \A i \in SecondaryPasses(r) :
    \A j \in (i + 1)..Len(trace[r]) :
      /\ trace[r][j].op \notin {"select", "delete", "attach"}
      /\ trace[r][j].op = "upsert" =>
           /\ trace[r][j].table \in {"product_content", "variant_content"}
           /\ trace[r][j].lang \in SecondaryLangs(r)

\* a step of a run that has started its secondary passes leaves products and
\* variants alone, removes no content key, and writes content rows of the
\* pass's language only
PassesWriteContentOnly ==
  \A r \in Runs :
    SecondaryPasses(r) # {} =>
      /\ products' = products
      /\ variants' = variants
      /\ \A t \in RowsChanged :
           /\ t.language_code = run[r].lang
           /\ t.language_code \in SecondaryLangs(r)
           /\ t.shop_id = shops[r].id
      /\ \A t \in product_content :
           \E u \in product_content' :
             ConflictKey(u, ContentCols) = ConflictKey(t, ContentCols)
      /\ \A t \in variant_content :
           \E u \in variant_content' :
             ConflictKey(u, VariantContentCols) = ConflictKey(t, VariantContentCols)

(***************************************************************************)
(* C15  Secondary-language passes are content-only.  A run makes one pass  *)
(* for each active language other than the base language, and no pass for  *)
(* the base language or for an inactive language.  A pass reads and        *)
(* deletes nothing, leaves products and variants as they are, and upserts  *)
(* only product_content and variant_content rows that carry the language   *)
(* code of the pass; so the products and variants a run leaves stored are  *)
(* decided by the base-language fetch, whatever the secondary fetches      *)
(* return.                                                                 *)
(***************************************************************************)
SecondaryPassesContentOnly ==
  /\ [](\A r \in Runs :
          /\ OnePassPerSecondaryLanguage(r)
          /\ PassesCallContentOnly(r)
          /\ (run[r].pc = "returned" /\ AllOk(r)) =>
               /\ StoredProductIds(r) = FetchedProductIds(r)
               /\ StoredVariantIds(r) = KeptVariantIds(r))
  /\ [][PassesWriteContentOnly]_vars

\* a shop with base nl, active fr and inactive de has returned: one pass, for
\* fr, against a secondary catalogue larger than the base one, content rows
\* written for fr, and the stored products those of the base fetch
ContentOnlyPassReached ==
  \E r \in Runs :
    /\ run[r].pc = "returned"
    /\ SecondaryLangs(r) = {"fr"}
    /\ InactiveLangs(r) = {"de"}
    /\ Cardinality(SecondaryPasses(r)) = 1
    /\ StoredProductContentIds(r, "fr") # {}
    /\ StoredVariantContentIds(r, "fr") # {}
    /\ IdsOf(Localized(r, "fr").products) \ FetchedProductIds(r) # {}
    /\ StoredProductIds(r) = FetchedProductIds(r)
    /\ sync_logs[r].metrics.products_deleted > 0

(***************************************************************************)
(* The script invoked again: after a sync_shop call has returned, the next *)
(* invocation calls sync_shop for the same shop against the same remote    *)
(* snapshot and the rows the first call left                               *)
(***************************************************************************)
RunAgain(r) ==
  /\ r \in Runs
  /\ run[r].pc = "returned"
  /\ fleet.invocation < MaxInvocations
  /\ fleet' = [fleet EXCEPT !.invocation = @ + 1]
  /\ run' = [run EXCEPT ![r] = [FreshRun EXCEPT !.pc = "insert_log"]]
  /\ sync_logs' = [sync_logs EXCEPT ![r] = NoRow]
  /\ trace' = [trace EXCEPT ![r] = <<>>]
  /\ prior' = [products |-> products, product_content |-> product_content,
               variants |-> variants, variant_content |-> variant_content]
  /\ UNCHANGED <<shops, environ, remote, db_flaky, tables, task>>

\* any base catalogue over the id universe, a full secondary catalogue, and
\* either nothing or every product stored
InitTwice ==
  \E cfg \in LangConfigs, bp \in SUBSET ProductIds,
     pp \in {{}, ProductIds},
     vstate \in [VariantIds -> {"absent", "ref", "noref"}] :
    SoloSetup(cfg, [api_key |-> {1}, api_secret |-> {1}], "up",
              [products |-> ProductSeq(bp), variants |-> VariantSeq(vstate)],
              FullCatalogue, pp,
              {<<v, Parent(v)>> : v \in {w \in VariantIds : Parent(w) \in pp}})

NextTwice == NextShop \/ (\E r \in RunIds : RunAgain(r))

SpecTwice == InitTwice /\ [][NextTwice]_vars

\* upserting `rows` into `table` a second time changes nothing
UpsertTwiceIsOnce(table, rows, conflict_cols) ==
  BulkUpsert(BulkUpsert(table, rows, conflict_cols), rows, conflict_cols)
    = BulkUpsert(table, rows, conflict_cols)

\* the six row lists a run hands to bulk_upsert, against the tables as they are
RunUpsertsIdempotent(r) ==
  /\ UpsertTwiceIsOnce(products, run[r].product_rows, ProductCols)
  /\ UpsertTwiceIsOnce(product_content, run[r].content_rows, ContentCols)
  /\ UpsertTwiceIsOnce(variants, run[r].variant_rows, VariantCols)
  /\ UpsertTwiceIsOnce(variant_content, run[r].variant_content_rows, VariantContentCols)
  /\ UpsertTwiceIsOnce(product_content, run[r].localized_product_rows, ContentCols)
  /\ UpsertTwiceIsOnce(variant_content, run[r].localized_variant_rows,
                       VariantContentCols)

EmptyUpsertChangesNothing ==
  /\ BulkUpsert(products, <<>>, ProductCols) = products
  /\ BulkUpsert(product_content, <<>>, ContentCols) = product_content
  /\ BulkUpsert(variants, <<>>, VariantCols) = variants
  /\ BulkUpsert(variant_content, <<>>, VariantContentCols) = variant_content

\* the call of a later invocation: it follows a call that returned
SecondRun(r) == fleet.invocation > 1

(***************************************************************************)
(* C16  Upsert idempotence.  Upserting the same rows with the same         *)
(* conflict columns a second time leaves the table as the first upsert     *)
(* left it, and an upsert of no rows leaves the table as it is.  A call of *)
(* sync_shop that follows a successful call for the same shop, the remote  *)
(* snapshot unchanged, leaves the four tables at every step as they were   *)
(* when it started and deletes nothing.                                    *)
(***************************************************************************)
UpsertIsIdempotent ==
  \A r \in Runs :
    /\ RunUpsertsIdempotent(r)
    /\ EmptyUpsertChangesNothing
    /\ SecondRun(r) =>
         /\ TablesAsBefore
         /\ run[r].orphaned_products = {}
         /\ run[r].orphaned_variants = {}
         /\ run[r].removed_products = {}
         /\ run[r].removed_variants = {}
         /\ run[r].metrics.products_deleted = 0
         /\ run[r].metrics.variants_deleted = 0
         /\ \A i \in 1..Len(trace[r]) : trace[r][i].op # "delete"

\* a second call has returned after a first one that inserted, replaced and
\* deleted rows: it upserted every row again and the tables are the same
SecondRunReached ==
  \E r \in Runs :
    /\ SecondRun(r)
    /\ run[r].pc = "returned"
    /\ sync_logs[r].status = "success"
    /\ sync_logs[r].metrics.products_synced > 0
    /\ sync_logs[r].metrics.variants_synced > 0
    /\ sync_logs[r].metrics.products_deleted = 0
    /\ UpsertedOk(r, "products", BaseLang(shops[r].shop_languages))
    /\ SecondaryLangs(r) # {}
    /\ \A l \in SecondaryLangs(r) : UpsertedOk(r, "product_content", l)
    /\ products = prior.products
    /\ \E t \in products : t.shop_id = shops[r].id
    /\ StoredProductIds(r) # ProductIds

(***************************************************************************)
(* The fetches of a run that are in flight: submitted and not yet ended    *)
(***************************************************************************)
InFlight(r) == {k \in Kinds : task[r][k].st = "running"}

Submitted(r) == {k \in Kinds : task[r][k].st # "idle"}

\* the submitted fetches are one of products and one of variants for the
\* language of the pass, and the run is at the join of that pass
FetchesOfOnePass(r) ==
  /\ Cardinality(InFlight(r)) <= 2
  /\ Submitted(r) \in {{}, Kinds}
  /\ \A k \in Submitted(r) : task[r][k].lang = run[r].lang
  /\ Submitted(r) # {} => run[r].pc \in {"join_base", "join_lang"}

\* while a fetch of the run is in flight the run itself makes no step: no
\* call is logged, no table and no audit row changes
WaitsForFetches ==
  \A r \in Runs :
    InFlight(r) # {} =>
      /\ run'[r] = run[r]
      /\ trace'[r] = trace[r]
      /\ sync_logs'[r] = sync_logs[r]
      /\ UNCHANGED tables

(***************************************************************************)
(* C17  Fetch/join barrier within a shop.  A run has at most two fetches   *)
(* in flight, one of products and one of variants for the same language;   *)
(* and while one of them is in flight the run makes no attach, upsert,     *)
(* cleanup read, delete or audit update, whether or not the other fetch    *)
(* has already failed.                                                     *)
(***************************************************************************)
FetchJoinBarrier ==
  /\ [](\A r \in Runs : FetchesOfOnePass(r))
  /\ [][WaitsForFetches]_vars

\* the products fetch of a secondary pass has failed while the variants fetch,
\* one request made, is still in flight, and the run waits at the join
SiblingFailedWhileInFlightReached ==
  \E r \in Runs :
    /\ run[r].pc = "join_lang"
    /\ task[r]["products"].st = "failed"
    /\ task[r]["variants"].st = "running"
    /\ task[r]["variants"].reqs # <<>>
    /\ sync_logs[r].status = "running"

(***************************************************************************)
(* The requests of a call, by outcome and by page                          *)
(***************************************************************************)
Succeeded(c) == SelectSeq(Call(c).reqs, LAMBDA q : q.ok)

FailuresOn(c, page) ==
  Cardinality({i \in 1..Len(Call(c).reqs) :
                 ~ Call(c).reqs[i].ok /\ Call(c).reqs[i].page = page})

\* the successful requests are for pages 1, 2, 3, .. once each, and no page
\* is asked for again after it was received
EachPageReceivedOnce(c) ==
  /\ \A i \in 1..Len(Succeeded(c)) : Succeeded(c)[i].page = i
  /\ \A i \in 1..Len(Call(c).reqs) :
       \A j \in (i + 1)..Len(Call(c).reqs) :
         Call(c).reqs[i].ok => Call(c).reqs[j].page > Call(c).reqs[i].page
  /\ \A i \in 1..(Len(Call(c).reqs) - 1) :
       Call(c).reqs[i + 1].page \in {Call(c).reqs[i].page, Call(c).reqs[i].page + 1}

\* what has been accumulated is the collection up to the last page received
AccumulatedInOrder(c) ==
  /\ Len(Call(c).acc) <= Len(Collection(c))
  /\ Call(c).acc = SubSeq(Collection(c), 1, Len(Call(c).acc))
  /\ Len(Call(c).acc) = Min(Len(Succeeded(c)) * LIMIT, Len(Collection(c)))

(***************************************************************************)
(* C18  Retry transparency with a per-page budget.  The attempts are       *)
(* counted per page: a call gives up only on a page that failed            *)
(* MAX_RETRIES times, however many requests failed on earlier pages; and   *)
(* a call that returns, whatever failed on the way, returns the collection *)
(* as a failure-free call does, every page received once, in order, none   *)
(* skipped, asked for again after it was received, or appended twice.      *)
(***************************************************************************)
RetriesAreTransparent ==
  \A c \in Calls :
    /\ EachPageReceivedOnce(c)
    /\ AccumulatedInOrder(c)
    /\ \A page \in 1..Call(c).page : FailuresOn(c, page) <= MAX_RETRIES
    /\ Call(c).st = "failed" <=> FailuresOn(c, Call(c).page) = MAX_RETRIES
    /\ Call(c).st = "done" =>
         /\ Returned(Call(c)) = Collection(c)
         /\ \A page \in 1..Call(c).page : FailuresOn(c, page) < MAX_RETRIES

\* a call has returned a collection of more than two pages after two failed
\* requests on each of its first two pages
ReturnedAfterManyRetriesReached ==
  \E c \in Calls :
    /\ Call(c).st = "done"
    /\ ~ FailureFree(c)
    /\ FailuresOn(c, 1) = MAX_RETRIES - 1
    /\ FailuresOn(c, 2) = MAX_RETRIES - 1
    /\ Len(Returned(Call(c))) > 2 * LIMIT
    /\ Returned(Call(c)) = Collection(c)

(***************************************************************************)
(* The fleet run: its shop runs and its final report                       *)
(***************************************************************************)
Launched == {r \in Runs : run[r].pc # "idle"}

Reported == fleet.pc = "done"

\* the shop runs are launched together, one per roster entry, and the report
\* comes after each of them has ended and been collected
ReportsAfterEveryRun ==
  /\ Launched \in {{}, Runs}
  /\ fleet.pc \in {"collecting", "done"} => Launched = Runs
  /\ fleet.collected \subseteq {r \in Runs : Ended(r)}
  /\ Reported => /\ \A r \in Runs : Ended(r)
                 /\ fleet.collected = Runs
                 /\ fleet.failed = {r \in Runs : run[r].pc = "raised"}

(***************************************************************************)
(* C19  Fleet completion as it is stated: for every roster, the empty one  *)
(* included, and every set of failing shops, one shop run is launched per  *)
(* roster entry, all together, and the final report is eventually          *)
(* emitted, after every shop run has ended.                                *)
(***************************************************************************)
FleetCompletesAsStated ==
  /\ []ReportsAfterEveryRun
  /\ <>Reported

\* what the script does: with a shop in the roster the report is eventually
\* emitted; with none, the pool cannot be built and nothing is reported
FleetCompletesUnlessEmpty ==
  /\ []ReportsAfterEveryRun
  /\ Len(shops) > 0 => <>Reported
  /\ Len(shops) = 0 => [](~ Reported) /\ <>[](fleet.pc = "crashed")

(***************************************************************************)
(* The metrics of a run and the rows its cleanup removed                   *)
(***************************************************************************)
\* the keys stored for the shop before the run that are stored no more
GoneProducts(r) ==
  {ProductKey(t) : t \in RowsOf(prior.products, shops[r].id)}
    \ {ProductKey(t) : t \in RowsOf(products, shops[r].id)}
GoneVariants(r) ==
  {VariantKey(t) : t \in RowsOf(prior.variants, shops[r].id)}
    \ {VariantKey(t) : t \in RowsOf(variants, shops[r].id)}

CountsAddUp(m) ==
  /\ m.variants_filtered >= 0
  /\ m.variants_fetched = m.variants_synced + m.variants_filtered
  /\ m.products_synced = m.products_fetched

DeletedCountsAreExact(r, m) ==
  /\ m.products_deleted = Cardinality(run[r].removed_products)
  /\ m.variants_deleted = Cardinality(run[r].removed_variants)
  /\ run[r].removed_products = GoneProducts(r)
  /\ run[r].removed_variants = GoneVariants(r)

\* the audit row has been closed with the run's metrics
MetricsWritten(r) == sync_logs[r].status \in {"success", "error"}

OverlapConfig == CHOOSE c \in LangConfigs : Len(c) = 3 /\ c[1].is_default

SnapshotBefore ==
  Catalogue(OverlapConfig,
            [products |-> ProductSeq({1, 2}), variants |-> << V(1, 1), V(2, 2) >>],
            [products |-> ProductSeq({1, 2}), variants |-> << V(1, 1), V(2, 2) >>])

SnapshotAfter ==
  Catalogue(OverlapConfig,
            [products |-> ProductSeq({2, 3}), variants |-> << V(2, 2), V(3, 3) >>],
            [products |-> ProductSeq({2, 3}), variants |-> << V(2, 2), V(3, 3) >>])

InitOverlap ==
  Setup(<< Shop(1, OverlapConfig), Shop(1, OverlapConfig) >>,
        [api_key |-> {1}, api_secret |-> {1}],
        [s \in {1} |-> [mode |-> "up", catalogue |-> SnapshotBefore]],
        TRUE, "idle",
        PriorProducts(1, {1}), PriorContent(1, {1}),
        PriorVariants(1, {<<1, 1>>}), PriorVariantContent(1, {<<1, 1>>}))

\* executor.submit(sync_shop, shop) of one invocation (line 402)
StartRun(r) ==
  /\ r \in Runs
  /\ run[r].pc = "idle"
  /\ run' = [run EXCEPT ![r].pc = "insert_log"]
  /\ UNCHANGED <<scenario, tables, sync_logs, task, fleet, trace>>

\* the shop owner edits the catalogue: product 1 is removed, product 3 added
RemoteChange ==
  /\ \E s \in DOMAIN remote :
       /\ remote[s].catalogue = SnapshotBefore
       /\ remote' = [remote EXCEPT ![s].catalogue = SnapshotAfter]
  /\ UNCHANGED <<shops, environ, db_flaky, prior, tables, sync_logs, run, task,
                 fleet, trace>>

NextOverlap ==
  \/ \E r \in RunIds : StartRun(r)
  \/ \E r \in RunIds : RunNext(r)
  \/ RemoteChange

SpecOverlap == InitOverlap /\ [][NextOverlap]_vars

SameShop(r) == {q \in Runs \ {r} : shops[q].id = shops[r].id}

InProgress(r) == run[r].pc # "idle" /\ ~ Ended(r)

\* no other call for the shop of run r has been made so far
AloneSoFar(r) == \A q \in SameShop(r) : run[q].pc = "idle"

\* the keys of the products run r fetched
FetchedKeys(r) == {<<shops[r].id, id>> : id \in run[r].api_product_ids}

(***************************************************************************)
(* C21  No per-shop mutual exclusion.  A call of sync_shop that has been   *)
(* made and has not ended can always take its next step, whatever another  *)
(* call for the same shop is doing: nothing makes it wait for, or give way *)
(* to, a running audit row of its shop.  The stored ids of the shop equal  *)
(* the ids a successful run fetched as long as no other call for the shop  *)
(* has been made.                                                          *)
(***************************************************************************)
NoMutualExclusion ==
  \A r \in Runs :
    /\ run[r].pc = "idle" => ENABLED StartRun(r)
    /\ InProgress(r) => ENABLED RunNext(r)
    /\ (sync_logs[r].status = "success" /\ AloneSoFar(r)) =>
         /\ StoredProductIds(r) = run[r].api_product_ids
         /\ StoredVariantIds(r) = run[r].api_variant_ids

\* two calls for one shop overlapped: the first fetched the catalogue before it
\* changed and is still running; the second fetched it after, upserted product
\* 3 and has closed as success, and the first has deleted product 3 as orphaned
OverlapBreaksGuaranteeReached ==
  \E r \in Runs, q \in Runs :
    /\ q \in SameShop(r)
    /\ sync_logs[r].status = "success"
    /\ sync_logs[q].status = "running"
    /\ InProgress(q)
    /\ run[q].api_product_ids # run[r].api_product_ids
    /\ run[q].removed_products \cap FetchedKeys(r) # {}
    /\ StoredProductIds(r) # run[r].api_product_ids

=============================================================================
